---- MODULE Spec2Model ----
(***************************************************************************)
(* A model of the lkml codec: the Lexer (text -> tokens), the Parser       *)
(* (tokens -> tree) and the Serializer (tree -> text), chained as          *)
(*     load(input); dump(tree); load(out); dump(tree2).                    *)
(*                                                                         *)
(* Text is a sequence of one-character strings.  JavaScript indices are    *)
(* kept 0-based, so character i of a text t is t[i + 1].                   *)
(***************************************************************************)
EXTENDS Integers, Sequences, FiniteSets, TLC

VARIABLES
  decls,        \* the declarations the input text was written from
  input,        \* the text given to the first load
  round,        \* 1: load(input) and dump;  2: load and dump of the first dump's text
  pc,           \* position in lkml.load / lkml.dump
  text,         \* Lexer.text (input padded with the end-of-text character)
  index,        \* Lexer.index
  line_number,  \* Lexer.line_number
  tokens,       \* Lexer.tokens
  chars,        \* the local `chars` of the scan_* loop in progress
  parser,       \* Parser.index / progress / depth when parse() ended
  tree,         \* what parse() returned, as load handed it to the caller
  error,        \* the exception that ended load or dump, if any
  out,          \* what serialize() returned
  dumped,       \* the caller's tree after serialize() ran on it
  again,        \* what a second serialize() of the same tree returned or threw
  serializer,   \* Serializer.parent_key / level / field_counter after serialize()
  first         \* tree, out and dumped of round 1, kept for round 2

vars == <<decls, input, round, pc, text, index, line_number, tokens, chars,
          parser, tree, error, out, dumped, again, serializer, first>>

----------------------------------------------------------------------------
(* Bounds of the model.                                                     *)

\* declarations per input text
MaxDecls == 4
\* words per raw input text
MaxWords == 3
\* how far past the end of the text a runaway scan loop is followed
MaxOverrun == 2

----------------------------------------------------------------------------
(* Characters and strings.                                                  *)

\* the padding character "\0" the Lexer appends
NUL == "NUL"

Max(a, b) == IF a >= b THEN a ELSE b

\* String.prototype.charAt: "" outside the string
CharAt(t, i) == IF i >= 0 /\ i < Len(t) THEN t[i + 1] ELSE ""

\* String.prototype.substring(from, to)
Substring(t, from, to) ==
  LET a == IF from > Len(t) THEN Len(t) ELSE from
      b == IF to > Len(t) THEN Len(t) ELSE to
  IN  IF a >= b THEN <<>> ELSE SubSeq(t, a + 1, b)

\* str.lastIndexOf(prefix, 0) === 0
StartsWith(str, prefix) ==
  Len(prefix) <= Len(str) /\ SubSeq(str, 1, Len(prefix)) = prefix

\* s + c for a character c that charAt returned ("" adds nothing)
AddChar(s, c) == IF c = "" THEN s ELSE Append(s, c)

WhiteSpace == {" ", "\n", "\t", "\r"}

RECURSIVE TrimLeft(_)
TrimLeft(s) ==
  IF s # <<>> /\ Head(s) \in WhiteSpace THEN TrimLeft(Tail(s)) ELSE s

RECURSIVE TrimRight(_)
TrimRight(s) ==
  IF s # <<>> /\ s[Len(s)] \in WhiteSpace
  THEN TrimRight(SubSeq(s, 1, Len(s) - 1)) ELSE s

\* String.prototype.trim
Trim(s) == TrimRight(TrimLeft(s))

\* key.replace(/s$/, '')
StripS(k) ==
  IF k # <<>> /\ k[Len(k)] = "s" THEN SubSeq(k, 1, Len(k) - 1) ELSE k

RECURSIVE Concat(_)
Concat(ss) == IF ss = <<>> THEN <<>> ELSE Head(ss) \o Concat(Tail(ss))

Digits == {"0", "1", "2", "3", "4", "5", "6", "7", "8", "9"}

DigitVal(c) ==
  CASE c = "0" -> 0 [] c = "1" -> 1 [] c = "2" -> 2 [] c = "3" -> 3
    [] c = "4" -> 4 [] c = "5" -> 5 [] c = "6" -> 6 [] c = "7" -> 7
    [] c = "8" -> 8 [] c = "9" -> 9

DigitChar(n) ==
  CASE n = 0 -> "0" [] n = 1 -> "1" [] n = 2 -> "2" [] n = 3 -> "3"
    [] n = 4 -> "4" [] n = 5 -> "5" [] n = 6 -> "6" [] n = 7 -> "7"
    [] n = 8 -> "8" [] n = 9 -> "9"

AllDigits(k) == \A i \in 1..Len(k) : k[i] \in Digits

RECURSIVE NumVal(_)
NumVal(k) ==
  IF k = <<>> THEN 0 ELSE 10 * NumVal(SubSeq(k, 1, Len(k) - 1)) + DigitVal(k[Len(k)])

\* String(n) for an array index n
RECURSIVE NumStr(_)
NumStr(n) == IF n < 10 THEN <<DigitChar(n)>> ELSE NumStr(n \div 10) \o <<DigitChar(n % 10)>>

\* a property name that JavaScript treats as an array index ("0", "1", "12")
IsIndexKey(k) == k # <<>> /\ AllDigits(k) /\ (Len(k) = 1 \/ k[1] # "0")

\* !isNaN(Number(key)) for keys of letters, digits, "_", "." and "+":
\* Number("") is 0 and a run of digits is a number
IsNumericKey(k) == AllDigits(k)

----------------------------------------------------------------------------
(* The key catalog.                                                         *)

PLURAL_KEYS ==
  { <<"v", "i", "e", "w">>,
    <<"m", "e", "a", "s", "u", "r", "e">>,
    <<"d", "i", "m", "e", "n", "s", "i", "o", "n">>,
    <<"d", "i", "m", "e", "n", "s", "i", "o", "n", "_", "g", "r", "o", "u", "p">>,
    <<"a", "c", "c", "e", "s", "s", "_", "f", "i", "l", "t", "e", "r">>,
    <<"b", "i", "n", "d", "_", "f", "i", "l", "t", "e", "r">>,
    <<"m", "a", "p", "_", "l", "a", "y", "e", "r">>,
    <<"p", "a", "r", "a", "m", "e", "t", "e", "r">>,
    <<"s", "e", "t">>,
    <<"c", "o", "l", "u", "m", "n">>,
    <<"d", "e", "r", "i", "v", "e", "d", "_", "c", "o", "l", "u", "m", "n">>,
    <<"i", "n", "c", "l", "u", "d", "e">>,
    <<"e", "x", "p", "l", "o", "r", "e">>,
    <<"l", "i", "n", "k">>,
    <<"w", "h", "e", "n">>,
    <<"a", "l", "l", "o", "w", "e", "d", "_", "v", "a", "l", "u", "e">>,
    <<"n", "a", "m", "e", "d", "_", "v", "a", "l", "u", "e", "_", "f", "o", "r", "m", "a", "t">>,
    <<"j", "o", "i", "n">>,
    <<"d", "a", "t", "a", "g", "r", "o", "u", "p">>,
    <<"a", "c", "c", "e", "s", "s", "_", "g", "r", "a", "n", "t">>,
    <<"s", "q", "l", "_", "s", "t", "e", "p">>,
    <<"a", "c", "t", "i", "o", "n">>,
    <<"p", "a", "r", "a", "m">>,
    <<"f", "o", "r", "m", "_", "p", "a", "r", "a", "m">>,
    <<"o", "p", "t", "i", "o", "n">>,
    <<"u", "s", "e", "r", "_", "a", "t", "t", "r", "i", "b", "u", "t", "e", "_", "p", "a", "r", "a", "m">>,
    <<"a", "s", "s", "e", "r", "t">>,
    <<"t", "e", "s", "t">> }

EXPR_BLOCK_KEYS ==
  { <<"e", "x", "p", "r", "e", "s", "s", "i", "o", "n", "_", "c", "u", "s", "t", "o", "m", "_", "f", "i", "l", "t", "e", "r">>,
    <<"e", "x", "p", "r", "e", "s", "s", "i", "o", "n">>,
    <<"h", "t", "m", "l">>,
    <<"s", "q", "l", "_", "t", "r", "i", "g", "g", "e", "r", "_", "v", "a", "l", "u", "e">>,
    <<"s", "q", "l", "_", "t", "a", "b", "l", "e", "_", "n", "a", "m", "e">>,
    <<"s", "q", "l", "_", "d", "i", "s", "t", "i", "n", "c", "t", "_", "k", "e", "y">>,
    <<"s", "q", "l", "_", "s", "t", "a", "r", "t">>,
    <<"s", "q", "l", "_", "a", "l", "w", "a", "y", "s", "_", "h", "a", "v", "i", "n", "g">>,
    <<"s", "q", "l", "_", "a", "l", "w", "a", "y", "s", "_", "w", "h", "e", "r", "e">>,
    <<"s", "q", "l", "_", "t", "r", "i", "g", "g", "e", "r">>,
    <<"s", "q", "l", "_", "f", "o", "r", "e", "i", "g", "n", "_", "k", "e", "y">>,
    <<"s", "q", "l", "_", "w", "h", "e", "r", "e">>,
    <<"s", "q", "l", "_", "e", "n", "d">>,
    <<"s", "q", "l", "_", "c", "r", "e", "a", "t", "e">>,
    <<"s", "q", "l", "_", "l", "a", "t", "i", "t", "u", "d", "e">>,
    <<"s", "q", "l", "_", "l", "o", "n", "g", "i", "t", "u", "d", "e">>,
    <<"s", "q", "l", "_", "s", "t", "e", "p">>,
    <<"s", "q", "l", "_", "o", "n">>,
    <<"s", "q", "l">> }

QUOTED_LITERAL_KEYS ==
  { <<"l", "a", "b", "e", "l">>,
    <<"v", "i", "e", "w", "_", "l", "a", "b", "e", "l">>,
    <<"g", "r", "o", "u", "p", "_", "l", "a", "b", "e", "l">>,
    <<"g", "r", "o", "u", "p", "_", "i", "t", "e", "m", "_", "l", "a", "b", "e", "l">>,
    <<"s", "u", "g", "g", "e", "s", "t", "_", "p", "e", "r", "s", "i", "s", "t", "_", "f", "o", "r">>,
    <<"d", "e", "f", "a", "u", "l", "t", "_", "v", "a", "l", "u", "e">>,
    <<"d", "i", "r", "e", "c", "t", "i", "o", "n">>,
    <<"v", "a", "l", "u", "e", "_", "f", "o", "r", "m", "a", "t">>,
    <<"n", "a", "m", "e">>,
    <<"u", "r", "l">>,
    <<"i", "c", "o", "n", "_", "u", "r", "l">>,
    <<"f", "o", "r", "m", "_", "u", "r", "l">>,
    <<"d", "e", "f", "a", "u", "l", "t">>,
    <<"t", "a", "g", "s">>,
    <<"v", "a", "l", "u", "e">>,
    <<"d", "e", "s", "c", "r", "i", "p", "t", "i", "o", "n">>,
    <<"s", "o", "r", "t", "k", "e", "y", "s">>,
    <<"i", "n", "d", "e", "x", "e", "s">>,
    <<"p", "a", "r", "t", "i", "t", "i", "o", "n", "_", "k", "e", "y", "s">>,
    <<"c", "o", "n", "n", "e", "c", "t", "i", "o", "n">>,
    <<"i", "n", "c", "l", "u", "d", "e">>,
    <<"m", "a", "x", "_", "c", "a", "c", "h", "e", "_", "a", "g", "e">>,
    <<"a", "l", "l", "o", "w", "e", "d", "_", "v", "a", "l", "u", "e", "s">>,
    <<"t", "i", "m", "e", "z", "o", "n", "e">>,
    <<"p", "e", "r", "s", "i", "s", "t", "_", "f", "o", "r">>,
    <<"c", "l", "u", "s", "t", "e", "r", "_", "k", "e", "y", "s">>,
    <<"d", "i", "s", "t", "r", "i", "b", "u", "t", "i", "o", "n">>,
    <<"e", "x", "t", "e", "n", "t", "s", "_", "j", "s", "o", "n", "_", "u", "r", "l">>,
    <<"f", "e", "a", "t", "u", "r", "e", "_", "k", "e", "y">>,
    <<"f", "i", "l", "e">>,
    <<"p", "r", "o", "p", "e", "r", "t", "y", "_", "k", "e", "y">>,
    <<"p", "r", "o", "p", "e", "r", "t", "y", "_", "l", "a", "b", "e", "l", "_", "k", "e", "y">>,
    <<"e", "l", "s", "e">> }

KEYS_WITH_NAME_FIELDS ==
  { <<"u", "s", "e", "r", "_", "a", "t", "t", "r", "i", "b", "u", "t", "e", "_", "p", "a", "r", "a", "m">>,
    <<"p", "a", "r", "a", "m">>,
    <<"f", "o", "r", "m", "_", "p", "a", "r", "a", "m">>,
    <<"o", "p", "t", "i", "o", "n">> }

KEYS_FOR_SETS ==
  { <<"f", "i", "l", "t", "e", "r", "s">>,
    <<"s", "o", "r", "t", "s">>,
    <<"r", "e", "q", "u", "i", "r", "e", "d", "_", "a", "c", "c", "e", "s", "s", "_", "g", "r", "a", "n", "t", "s">>,
    <<"t", "i", "m", "e", "f", "r", "a", "m", "e", "s">>,
    <<"i", "n", "t", "e", "r", "v", "a", "l", "s">>,
    <<"e", "x", "t", "e", "n", "d", "s">>,
    <<"c", "l", "u", "s", "t", "e", "r", "_", "k", "e", "y", "s">>,
    <<"s", "o", "r", "t", "k", "e", "y", "s">>,
    <<"i", "n", "d", "e", "x", "e", "s">>,
    <<"p", "a", "r", "t", "i", "t", "i", "o", "n", "_", "k", "e", "y", "s">>,
    <<"f", "i", "e", "l", "d", "s">>,
    <<"a", "l", "i", "a", "s">>,
    <<"r", "e", "q", "u", "i", "r", "e", "d", "_", "f", "i", "e", "l", "d", "s">>,
    <<"d", "r", "i", "l", "l", "_", "f", "i", "e", "l", "d", "s">>,
    <<"t", "a", "g", "s">>,
    <<"t", "i", "e", "r", "s">>,
    <<"s", "u", "g", "g", "e", "s", "t", "i", "o", "n", "s">> }

CHARACTER_TO_TOKEN ==
  [c \in {NUL, "{", "}", "[", "]", ",", ":", ";"} |->
     CASE c = NUL -> "StreamEndToken"
       [] c = "{" -> "BlockStartToken"
       [] c = "}" -> "BlockEndToken"
       [] c = "[" -> "ListStartToken"
       [] c = "]" -> "ListEndToken"
       [] c = "," -> "CommaToken"
       [] c = ":" -> "ValueToken"
       [] c = ";" -> "ExpressionBlockEndToken"]

----------------------------------------------------------------------------
(* Tokens.                                                                  *)

\* the `id` field each token class sets
TokenId(name) ==
  CASE name = "StreamStartToken" -> "<stream start>"
    [] name = "StreamEndToken" -> "<stream end>"
    [] name = "BlockStartToken" -> "{"
    [] name = "BlockEndToken" -> "}"
    [] name = "ValueToken" -> ":"
    [] name = "ExpressionBlockEndToken" -> ";;"
    [] name = "CommaToken" -> ","
    [] name = "ListStartToken" -> "["
    [] name = "ListEndToken" -> "]"
    [] name = "ExpressionBlockToken" -> "<expression block>"
    [] name = "LiteralToken" -> "<literal>"
    [] name = "QuotedLiteralToken" -> "<quoted literal>"

\* new tokens.X(line_number)
Token(name, ln) ==
  [name |-> name, id |-> TokenId(name), chars |-> <<>>, line_number |-> ln]

\* new tokens.X(chars, line_number)
ContentToken(name, cs, ln) ==
  [name |-> name, id |-> TokenId(name), chars |-> cs, line_number |-> ln]

\* the token class parse_block checks for before the block's name
RefinementToken == "RefinementToken"

----------------------------------------------------------------------------
(* The Lexer.                                                               *)

\* the inner while loop of scan_until_token: skip "\n", "\t" and " "
RECURSIVE SkipBlanks(_, _, _)
SkipBlanks(t, i, ln) ==
  IF CharAt(t, i) \in {"\n", "\t", " "}
  THEN SkipBlanks(t, i + 1, IF CharAt(t, i) = "\n" THEN ln + 1 ELSE ln)
  ELSE [index |-> i, line_number |-> ln]

\* the comment loop of scan_until_token: up to, not including, "\n" or the padding
RECURSIVE SkipComment(_, _)
SkipComment(t, i) ==
  IF CharAt(t, i) # NUL /\ CharAt(t, i) # "\n"
  THEN SkipComment(t, i + 1) ELSE i

RECURSIVE scan_until_token(_, _, _)
scan_until_token(t, i, ln) ==
  LET b == SkipBlanks(t, i, ln)
  IN  IF CharAt(t, b.index) = "#"
      THEN scan_until_token(t, SkipComment(t, b.index), b.line_number)
      ELSE b

\* the characters at which scan_literal stops
LiteralStops == {NUL, " ", "\n", "\t", ":", "}", "{", ",", "]"}

RECURSIVE LiteralEnd(_, _)
LiteralEnd(t, i) ==
  IF CharAt(t, i) \notin LiteralStops THEN LiteralEnd(t, i + 1) ELSE i

scan_literal(t, i, ln) ==
  LET e == LiteralEnd(t, i)
  IN  [token |-> ContentToken("LiteralToken", Substring(t, i, e), ln), index |-> e]

check_for_expression_block(str) ==
  \E entry \in EXPR_BLOCK_KEYS : StartsWith(str, entry \o <<":">>)

Lexing == {"scan", "quoted", "expression"}

\* scan(), before its loop
ScanStart ==
  /\ pc = "start"
  /\ tokens' = Append(tokens, Token("StreamStartToken", line_number))
  /\ pc' = "scan"
  /\ UNCHANGED <<decls, input, round, text, index, line_number, chars,
                 parser, tree, error, out, dumped, again, serializer, first>>

\* one pass of the loop of scan(), up to the token it pushes or the scan_* loop
\* it enters
ScanToken ==
  /\ pc = "scan"
  /\ LET s == scan_until_token(text, index, line_number)
         ch == CharAt(text, s.index)
     IN  IF ch = NUL
         THEN /\ tokens' = Append(tokens, Token(CHARACTER_TO_TOKEN[ch], s.line_number))
              /\ index' = s.index
              /\ line_number' = s.line_number
              /\ pc' = "parse"
              /\ chars' = chars
         ELSE IF ch = ";"
         THEN IF Substring(text, s.index, s.index + 2) = <<";", ";">>
              THEN /\ index' = s.index + 2
                   /\ line_number' = s.line_number
                   /\ tokens' = Append(tokens, Token(CHARACTER_TO_TOKEN[ch], s.line_number))
                   /\ UNCHANGED <<pc, chars>>
              ELSE /\ index' = s.index
                   /\ line_number' = s.line_number
                   /\ UNCHANGED <<pc, chars, tokens>>
         ELSE IF ch = "\""
         THEN /\ index' = s.index + 1
              /\ line_number' = s.line_number
              /\ chars' = <<>>
              /\ pc' = "quoted"
              /\ tokens' = tokens
         ELSE IF ch \in DOMAIN CHARACTER_TO_TOKEN
         THEN /\ index' = s.index + 1
              /\ line_number' = s.line_number
              /\ tokens' = Append(tokens, Token(CHARACTER_TO_TOKEN[ch], s.line_number))
              /\ UNCHANGED <<pc, chars>>
         ELSE IF check_for_expression_block(Substring(text, s.index, s.index + 25))
         THEN LET lit == scan_literal(text, s.index, s.line_number)
                  c == scan_until_token(text, lit.index, s.line_number)
                  v == scan_until_token(text, c.index + 1, c.line_number)
              IN  /\ tokens' = tokens \o <<lit.token, Token("ValueToken", c.line_number)>>
                  /\ index' = v.index
                  /\ line_number' = v.line_number
                  /\ chars' = <<>>
                  /\ pc' = "expression"
         ELSE LET lit == scan_literal(text, s.index, s.line_number)
              IN  /\ tokens' = Append(tokens, lit.token)
                  /\ index' = lit.index
                  /\ line_number' = s.line_number
                  /\ UNCHANGED <<pc, chars>>
  /\ UNCHANGED <<decls, input, round, text, parser, tree, error, out, dumped,
                 again, serializer, first>>

\* scan_quoted_literal without the branch for a backslash: the first quote
\* ends the literal (C24 fails)
ScanQuotedCharUnescaped ==
  /\ pc = "quoted"
  /\ index < Len(text) + MaxOverrun
  /\ LET ch == CharAt(text, index)
     IN  IF ch = "\""
         THEN /\ index' = index + 1
              /\ tokens' = Append(tokens, ContentToken("QuotedLiteralToken", chars, line_number))
              /\ pc' = "scan"
              /\ UNCHANGED <<chars, line_number>>
         ELSE /\ chars' = AddChar(chars, ch)
              /\ index' = index + 1
              /\ line_number' = IF ch = "\n" THEN line_number + 1 ELSE line_number
              /\ UNCHANGED <<pc, tokens>>
  /\ UNCHANGED <<decls, input, round, text, parser, tree, error, out, dumped,
                 again, serializer, first>>

\* one pass of the loop of scan_quoted_literal, or its exit at the closing quote
ScanQuotedChar ==
  /\ pc = "quoted"
  /\ index < Len(text) + MaxOverrun
  /\ LET ch == CharAt(text, index)
     IN  IF ch = "\""
         THEN /\ index' = index + 1
              /\ tokens' = Append(tokens, ContentToken("QuotedLiteralToken", chars, line_number))
              /\ pc' = "scan"
              /\ UNCHANGED <<chars, line_number>>
         ELSE IF ch = "\\"
         THEN /\ chars' = AddChar(AddChar(chars, ch), CharAt(text, index + 1))
              /\ index' = index + 2
              /\ UNCHANGED <<pc, tokens, line_number>>
         ELSE /\ chars' = AddChar(chars, ch)
              /\ index' = index + 1
              /\ line_number' = IF ch = "\n" THEN line_number + 1 ELSE line_number
              /\ UNCHANGED <<pc, tokens>>
  /\ UNCHANGED <<decls, input, round, text, parser, tree, error, out, dumped,
                 again, serializer, first>>

\* one pass of the loop of scan_expression_block, or its exit at ";;"
ScanExpressionChar ==
  /\ pc = "expression"
  /\ index < Len(text) + MaxOverrun
  /\ IF Substring(text, index, index + 2) = <<";", ";">>
     THEN /\ tokens' = Append(tokens, ContentToken("ExpressionBlockToken", Trim(chars), line_number))
          /\ pc' = "scan"
          /\ UNCHANGED <<index, line_number, chars>>
     ELSE /\ line_number' = IF CharAt(text, index) = "\n" THEN line_number + 1 ELSE line_number
          /\ chars' = AddChar(chars, CharAt(text, index))
          /\ index' = index + 1
          /\ UNCHANGED <<pc, tokens>>
  /\ UNCHANGED <<decls, input, round, text, parser, tree, error, out, dumped,
                 again, serializer, first>>

----------------------------------------------------------------------------
(* JavaScript values: strings, arrays (with their named properties) and     *)
(* objects.  Properties are kept in the order Object.keys lists them.       *)

Str(cs) == [t |-> "string", s |-> cs, items |-> <<>>, fields |-> <<>>]
Arr(items, props) == [t |-> "array", s |-> <<>>, items |-> items, fields |-> props]
Obj(fields) == [t |-> "object", s |-> <<>>, items |-> <<>>, fields |-> fields]
JSFalse == [t |-> "false", s |-> <<>>, items |-> <<>>, fields |-> <<>>]
Undefined == [t |-> "undefined", s |-> <<>>, items |-> <<>>, fields |-> <<>>]
\* an array slot that was never assigned
Hole == [t |-> "hole", s |-> <<>>, items |-> <<>>, fields |-> <<>>]

\* !v
Falsy(v) == v.t \in {"false", "undefined"} \/ (v.t = "string" /\ v.s = <<>>)

Field(k, v) == [k |-> k, v |-> v]

\* the assigned slots of an array, as properties named by their index
RECURSIVE IndexEntries(_, _)
IndexEntries(items, n) ==
  IF items = <<>> THEN <<>>
  ELSE (IF Head(items).t = "hole" THEN <<>> ELSE <<Field(NumStr(n), Head(items))>>)
       \o IndexEntries(Tail(items), n + 1)

\* Object.entries(v)
Entries(v) ==
  IF v.t = "array" THEN IndexEntries(v.items, 0) \o v.fields ELSE v.fields

\* Object.keys(v)
Keys(v) == [i \in 1..Len(Entries(v)) |-> Entries(v)[i].k]

\* Object.keys(v).indexOf(k) != -1
HasKey(v, k) == \E i \in 1..Len(Entries(v)) : Entries(v)[i].k = k

\* v[k]
Get(v, k) ==
  IF HasKey(v, k)
  THEN Entries(v)[CHOOSE i \in 1..Len(Entries(v)) : Entries(v)[i].k = k].v
  ELSE Undefined

\* where a new property k goes in the property order: index-like names come
\* first in ascending order, other names follow in the order they were added
InsertAt(fields, k) ==
  IF IsIndexKey(k)
  THEN Cardinality({i \in 1..Len(fields) :
                      IsIndexKey(fields[i].k) /\ NumVal(fields[i].k) < NumVal(k)})
  ELSE Len(fields)

PutField(fields, k, val) ==
  IF \E i \in 1..Len(fields) : fields[i].k = k
  THEN [i \in 1..Len(fields) |->
          IF fields[i].k = k THEN Field(k, val) ELSE fields[i]]
  ELSE LET n == InsertAt(fields, k)
       IN  SubSeq(fields, 1, n) \o <<Field(k, val)>> \o SubSeq(fields, n + 1, Len(fields))

Holes(n) == [i \in 1..n |-> Hole]

\* "" + v: the text JavaScript writes for a value
RECURSIVE ToText(_)
RECURSIVE JoinItems(_)
ToText(v) ==
  CASE v.t = "string" -> v.s
    [] v.t = "undefined" -> <<"u", "n", "d", "e", "f", "i", "n", "e", "d">>
    [] v.t = "false" -> <<"f", "a", "l", "s", "e">>
    [] v.t = "hole" -> <<>>
    [] v.t = "array" -> JoinItems(v.items)
    [] v.t = "object" -> <<"[", "o", "b", "j", "e", "c", "t", " ", "O", "b", "j", "e", "c", "t", "]">>
JoinItems(items) ==
  IF items = <<>> THEN <<>>
  ELSE (IF Head(items).t \in {"undefined", "hole"} THEN <<>> ELSE ToText(Head(items)))
       \o (IF Len(items) > 1 THEN <<",">> ELSE <<>>) \o JoinItems(Tail(items))

\* v.length = n
SetLength(v, n) ==
  IF n <= Len(v.items)
  THEN [v EXCEPT !.items = SubSeq(@, 1, n)]
  ELSE [v EXCEPT !.items = @ \o Holes(n - Len(@))]

\* Number(val) is an array length, for a string or an array val of the
\* characters of the inputs: a run of digits, "" for 0
IsLength(val) == val.t \in {"string", "array"} /\ AllDigits(ToText(val))

\* v[k] = val; v["length"] = val sets the length of an array v, for a val that
\* IsLength
Put(v, k, val) ==
  IF v.t = "array" /\ k = <<"l", "e", "n", "g", "t", "h">> /\ IsLength(val)
  THEN SetLength(v, NumVal(ToText(val)))
  ELSE IF v.t = "array" /\ IsIndexKey(k)
  THEN LET n == NumVal(k)
       IN  IF n < Len(v.items)
           THEN [v EXCEPT !.items[n + 1] = val]
           ELSE [v EXCEPT !.items = @ \o Holes(n - Len(@)) \o <<val>>]
  ELSE [v EXCEPT !.fields = PutField(@, k, val)]

\* delete v[k], for a property k that is not an array slot
Delete(v, k) ==
  [v EXCEPT !.fields = SelectSeq(@, LAMBDA f : f.k # k)]

\* v.push(val)
Push(v, val) == [v EXCEPT !.items = Append(@, val)]

----------------------------------------------------------------------------
(* Exceptions.                                                              *)

NoError == [kind |-> "none", id |-> "", line_number |-> 0, key |-> <<>>]

\* SyntaxError("Unable to find a matching expression for <id> on line <n>")
SyntaxError(token) ==
  [kind |-> "SyntaxError", id |-> token.id, line_number |-> token.line_number, key |-> <<>>]

\* Error("Key <key> already exists in tree and would overwrite the existing value.")
KeyError(key) == [kind |-> "Error", id |-> "", line_number |-> 0, key |-> key]

TypeError == [kind |-> "TypeError", id |-> "", line_number |-> 0, key |-> <<>>]

\* RangeError("Invalid array length")
RangeError == [kind |-> "RangeError", id |-> "", line_number |-> 0, key |-> <<>>]

----------------------------------------------------------------------------
(* The Parser.  Its state p is threaded through the grammar rules:          *)
(*   index, progress, depth : the fields of the Parser object               *)
(*   reached  : the largest value index has had                             *)
(*   history  : the values progress has had, oldest first                   *)
(* Every rule returns [val, p, error]; a rule that throws returns the       *)
(* exception in error, and its callers pass it on.                          *)

DEBUG == FALSE

\* the Parser after its constructor
NewParser ==
  [index |-> 0, progress |-> 0, depth |-> -1, reached |-> 0, history |-> <<0>>]

Return(val, p) == [val |-> val, p |-> p, error |-> NoError]
Throw(e, p) == [val |-> Undefined, p |-> p, error |-> e]

\* `let x = a call` followed by the statements that read x
Bind(x, statements(_)) == statements(x)

\* jump_to_index that leaves the cursor where it is (C18 fails)
jump_to_index_nowhere(p, i) == p

jump_to_index(p, i) == [p EXCEPT !.index = i]

\* backtrack without its comparison of index with progress: with it progress
\* follows the cursor back (C9 fails)
backtrack_unguarded(p, mark) ==
  LET q == [p EXCEPT !.progress = p.index]
  IN  jump_to_index([q EXCEPT !.history = Append(@, q.progress)], mark)

backtrack(p, mark) ==
  LET q == IF p.index > p.progress THEN [p EXCEPT !.progress = p.index] ELSE p
  IN  jump_to_index([q EXCEPT !.history = Append(@, q.progress)], mark)

\* this.tokens[this.index] is defined
HasToken(toks, p) == p.index >= 0 /\ p.index < Len(toks)

peek(toks, p) == toks[p.index + 1]

advance(p) ==
  [p EXCEPT !.index = @ + 1, !.reached = Max(@, p.index + 1)]

consume_token_value(toks, p) == toks[p.index + 1].chars

\* check(...input_tokens), for token classes that are registered
check(toks, p, input_tokens) ==
  HasToken(toks, p) /\ peek(toks, p).name \in input_tokens

Deeper(p) == [p EXCEPT !.depth = @ + 1]
Shallower(p) == [p EXCEPT !.depth = @ - 1]

\* the failure exit of a rule: this.depth -= 1; this.backtrack(mark); return false
Fail(p, mark) == Return(JSFalse, backtrack(Shallower(p), mark))

parse_key(toks, p0) ==
  LET mark == p0.index
      p1 == Deeper(p0)
  IN  IF check(toks, p1, {"LiteralToken"})
      THEN LET key == consume_token_value(toks, p1)
               p2 == advance(p1)
           IN  IF check(toks, p2, {"ValueToken"})
               THEN Return(Str(key), advance(p2))
               ELSE Fail(p2, mark)
      ELSE Fail(p1, mark)

parse_value(toks, p0) ==
  LET mark == p0.index
      p1 == Deeper(p0)
  IN  IF check(toks, p1, {"QuotedLiteralToken", "LiteralToken"})
      THEN Return(Str(consume_token_value(toks, p1)), advance(p1))
      ELSE IF check(toks, p1, {"ExpressionBlockToken"})
      THEN LET value == consume_token_value(toks, p1)
               p2 == advance(p1)
           IN  IF check(toks, p2, {"ExpressionBlockEndToken"})
               THEN Return(Str(value), advance(p2))
               ELSE Fail(p2, mark)
      ELSE Fail(p1, mark)

\* values.pop()
Pop(values) ==
  IF values.items = <<>> THEN Undefined
  ELSE IF values.items[Len(values.items)].t = "hole" THEN Undefined
  ELSE values.items[Len(values.items)]

Popped(values) ==
  IF values.items = <<>> THEN values
  ELSE [values EXCEPT !.items = SubSeq(@, 1, Len(@) - 1)]

\* the while loop of parse_csv
RECURSIVE csv_loop(_, _, _, _)
csv_loop(toks, p, values, mark) ==
  IF check(toks, p, {"ListEndToken"})
  THEN Return(values, p)
  ELSE IF ~check(toks, p, {"CommaToken", "ValueToken"})
  THEN Fail(p, mark)
  ELSE LET labeled == check(toks, p, {"ValueToken"})
           key == IF labeled THEN Pop(values) ELSE Str(<<>>)
           vals == IF labeled THEN Popped(values) ELSE values
           p1 == advance(p)
       IN  IF check(toks, p1, {"LiteralToken", "QuotedLiteralToken"})
           THEN IF key.t # "string"
                THEN Throw(TypeError, p1)
                ELSE IF key.s = <<"l", "e", "n", "g", "t", "h">> /\ ~IsLength(Str(consume_token_value(toks, p1)))
                THEN Throw(RangeError, advance(p1))
                ELSE LET val == Str(consume_token_value(toks, p1))
                     IN  csv_loop(toks, advance(p1),
                                  IF Len(key.s) > 0
                                  THEN Put(vals, key.s, val)
                                  ELSE Push(vals, val),
                                  mark)
           ELSE IF check(toks, p1, {"ListEndToken"})
           THEN Return(vals, p1)
           ELSE Fail(p1, mark)

parse_csv(toks, p0) ==
  LET mark == p0.index
      p1 == Deeper(p0)
  IN  IF check(toks, p1, {"LiteralToken", "QuotedLiteralToken"})
      THEN csv_loop(toks, advance(p1),
                    Arr(<<Str(consume_token_value(toks, p1))>>, <<>>), mark)
      ELSE Fail(p1, mark)

parse_list(toks, p0) ==
  Bind(parse_key(toks, Deeper(p0)), LAMBDA k :
    IF Falsy(k.val)
    THEN k
    ELSE IF ~check(toks, k.p, {"ListStartToken"})
    THEN Fail(k.p, p0.index)
    ELSE Bind(parse_csv(toks, advance(k.p)), LAMBDA c :
           IF c.error # NoError
           THEN c
           ELSE IF check(toks, c.p, {"ListEndToken"})
           THEN IF k.val.s = <<"l", "e", "n", "g", "t", "h">>
                   /\ ~IsLength(IF Falsy(c.val) THEN Arr(<<>>, <<>>) ELSE c.val)
                THEN Throw(RangeError, advance(c.p))
                ELSE IF DEBUG
                THEN Return(Undefined, advance(c.p))
                ELSE Return(Put(Arr(<<>>, <<>>), k.val.s,
                                IF Falsy(c.val) THEN Arr(<<>>, <<>>) ELSE c.val),
                            advance(c.p))
           ELSE Fail(c.p, p0.index)))

parse_pair(toks, p0) ==
  Bind(parse_key(toks, Deeper(p0)), LAMBDA k :
    Bind(parse_value(toks, k.p), LAMBDA v :
      IF Falsy(k.val) \/ Falsy(v.val)
      THEN Fail(v.p, p0.index)
      ELSE Return(Obj(<<Field(k.val.s, v.val)>>), v.p)))

\* update_tree with a repeated key's array started anew at every declaration:
\* with it a block replaces the blocks declared before it (C6 fails)
update_tree_restarting(target, update, depth) ==
  LET key == Keys(update)[1]
      stripped_key == StripS(key)
      plural_key == stripped_key \o <<"s">>
  IN  IF Len(Keys(update)) > 1
      THEN [tree |-> target, error |-> KeyError(<<>>)]
      ELSE IF stripped_key \in PLURAL_KEYS
      THEN [tree |-> Put(target, plural_key, Arr(<<Get(update, key)>>, <<>>)),
            error |-> NoError]
      ELSE IF HasKey(target, key)
      THEN IF depth = 0
           THEN [tree |-> Put(target, key, Get(update, key)), error |-> NoError]
           ELSE [tree |-> target, error |-> KeyError(key)]
      ELSE [tree |-> Put(target, key, Get(update, key)), error |-> NoError]

\* update_tree(target, update) with this.depth = depth: the new target, or the
\* exception
update_tree(target, update, depth) ==
  LET key == Keys(update)[1]
      stripped_key == StripS(key)
      plural_key == stripped_key \o <<"s">>
  IN  IF Len(Keys(update)) > 1
      THEN [tree |-> target, error |-> KeyError(<<>>)]
      ELSE IF stripped_key \in PLURAL_KEYS
      THEN [tree |->
              IF HasKey(target, plural_key)
              THEN Put(target, plural_key, Push(Get(target, plural_key), Get(update, key)))
              ELSE Put(target, plural_key, Arr(<<Get(update, key)>>, <<>>)),
            error |-> NoError]
      ELSE IF HasKey(target, key)
      THEN IF depth = 0
           THEN [tree |-> Put(target, key, Get(update, key)), error |-> NoError]
           ELSE [tree |-> target, error |-> KeyError(key)]
      ELSE [tree |-> Put(target, key, Get(update, key)), error |-> NoError]

RECURSIVE parse_expression(_, _)
RECURSIVE parse_block(_, _)
RECURSIVE expression_loop(_, _, _)

\* the while loop of parse_expression
expression_loop(toks, p, expression) ==
  IF check(toks, p, {"StreamEndToken", "BlockEndToken"})
  THEN Return(expression, p)
  ELSE Bind(parse_block(toks, p), LAMBDA block :
    IF block.error # NoError THEN block
    ELSE IF ~Falsy(block.val)
    THEN Bind(update_tree(expression, block.val, block.p.depth), LAMBDA u :
           IF u.error # NoError THEN Throw(u.error, block.p)
           ELSE expression_loop(toks, block.p, u.tree))
    ELSE Bind(parse_pair(toks, block.p), LAMBDA pair :
      IF ~Falsy(pair.val)
      THEN Bind(update_tree(expression, pair.val, pair.p.depth), LAMBDA u :
             IF u.error # NoError THEN Throw(u.error, pair.p)
             ELSE expression_loop(toks, pair.p, u.tree))
      ELSE Bind(parse_list(toks, pair.p), LAMBDA list :
        IF list.error # NoError THEN list
        ELSE IF ~Falsy(list.val)
        THEN expression_loop(toks, list.p,
                             IF Entries(list.val) = <<>>
                             THEN expression
                             ELSE Put(expression, Keys(list.val)[1], Entries(list.val)[1].v))
        ELSE Throw(SyntaxError(toks[list.p.progress + 1]), list.p))))

parse_expression(toks, p0) ==
  LET p1 == Deeper(p0)
      p2 == IF check(toks, p1, {"StreamStartToken"}) THEN advance(p1) ELSE p1
  IN  expression_loop(toks, p2, Obj(<<>>))

parse_block(toks, p0) ==
  Bind(parse_key(toks, Deeper(p0)), LAMBDA k :
    IF Falsy(k.val)
    THEN k
    ELSE LET refined == check(toks, k.p, {RefinementToken})
             p1 == IF refined THEN advance(k.p) ELSE k.p
             named == check(toks, p1, {"LiteralToken"})
             literal == (IF refined THEN <<"+">> ELSE <<>>)
                        \o (IF named THEN consume_token_value(toks, p1) ELSE <<>>)
             p2 == IF named THEN advance(p1) ELSE p1
         IN  IF ~check(toks, p2, {"BlockStartToken"})
             THEN Fail(p2, p0.index)
             ELSE Bind(parse_expression(toks, advance(p2)), LAMBDA e :
                    IF e.error # NoError
                    THEN e
                    ELSE IF check(toks, e.p, {"BlockEndToken"})
                    THEN Return(
                           Obj(<<Field(k.val.s,
                                       IF literal # <<>>
                                       THEN Put(e.val, <<"n", "a", "m", "e">>, Str(literal))
                                       ELSE e.val)>>),
                           advance(e.p))
                    ELSE Fail(e.p, p0.index)))

\* parse()
parse(toks) == parse_expression(toks, NewParser)

----------------------------------------------------------------------------
(* The Serializer.  Its state s = [parent_key, level, field_counter] is     *)
(* threaded through the write_* methods; indent and newline_indent are      *)
(* functions of level.  Every method returns [out, s, val, error]: the text *)
(* it yielded, the state it left, and the value it was given as the method  *)
(* left it (write_any deletes properties of the caller's objects).          *)

\* the Serializer after its constructor
NewSerializer == [parent_key |-> Str(<<>>), level |-> 0, field_counter |-> 0]

\* base_indent.repeat(level)
RECURSIVE Indent(_)
Indent(level) == IF level <= 0 THEN <<>> ELSE <<" ", " ">> \o Indent(level - 1)

NewlineIndent(level) == <<"\n">> \o Indent(level)

increase_level(s) == [s EXCEPT !.field_counter = 0, !.level = @ + 1]
\* decrease_level that leaves the level as it is (C30 fails)
decrease_level_kept(s) == [s EXCEPT !.field_counter = 0]

decrease_level(s) == [s EXCEPT !.field_counter = 0, !.level = @ - 1]

\* typeof(value)
TypeOf(v) ==
  CASE v.t = "string" -> "string"
    [] v.t \in {"array", "object"} -> "object"
    [] v.t = "false" -> "boolean"
    [] v.t \in {"undefined", "hole"} -> "undefined"

\* values.length
Length(v) == IF v.t = "array" THEN Len(v.items) ELSE 0

Emit(acc, s, val) == [out |-> acc, s |-> s, val |-> val, error |-> NoError]
Raise(e, s, val) == [out |-> <<>>, s |-> s, val |-> val, error |-> e]

is_plural_key(s, key) ==
  IF key # <<>> /\ key[Len(key)] = "s"
  THEN LET singular_key == StripS(key)
       IN  /\ singular_key \in PLURAL_KEYS
           /\ ~(/\ singular_key = <<"a", "l", "l", "o", "w", "e", "d", "_", "v", "a", "l", "u", "e">>
                /\ StripS(s.parent_key.s) = <<"a", "c", "c", "e", "s", "s", "_", "g", "r", "a", "n", "t">>)
  ELSE FALSE

\* is_plural_key reads this.parent_key.replace, which only a string has
PluralKeyThrows(s, key) ==
  /\ key # <<>> /\ key[Len(key)] = "s"
  /\ StripS(key) = <<"a", "l", "l", "o", "w", "e", "d", "_", "v", "a", "l", "u", "e">>
  /\ s.parent_key.t # "string"

write_key(s, key) == Indent(s.level) \o ToText(key) \o <<":", " ">>

\* write_value that quotes by the key alone (C13 fails)
write_value_by_key(key, value, force_quote) ==
  IF key \in QUOTED_LITERAL_KEYS
  THEN <<"\"">> \o ToText(value) \o <<"\"">>
  ELSE IF key \in EXPR_BLOCK_KEYS
  THEN ToText(value) \o <<" ", ";", ";">>
  ELSE ToText(value)

write_value(key, value, force_quote) ==
  IF force_quote \/ key \in QUOTED_LITERAL_KEYS
  THEN <<"\"">> \o ToText(value) \o <<"\"">>
  ELSE IF key \in EXPR_BLOCK_KEYS
  THEN ToText(value) \o <<" ", ";", ";">>
  ELSE ToText(value)

\* write_labeled_set without the quotes around the value (C11 fails)
write_labeled_set_unquoted(key, value) ==
  key \o <<":", " ">> \o ToText(value)

write_labeled_set(key, value) ==
  key \o <<":", " ">> \o <<"\"">> \o ToText(value) \o <<"\"">>

write_pair(s, key, value) ==
  write_key(s, Str(key)) \o write_value(key, value, FALSE)

\* the for loop of write_set over entries i.. of the values
RECURSIVE set_loop(_, _, _, _, _)
set_loop(key, entries, i, long, level) ==
  IF i > Len(entries) THEN <<>>
  ELSE (IF i > 1
        THEN <<",", " ">> \o (IF long THEN NewlineIndent(level) ELSE <<>>)
        ELSE <<>>)
       \o (IF key = <<"f", "i", "l", "t", "e", "r", "s">>
           THEN write_labeled_set(entries[i].k, entries[i].v)
           ELSE write_value(entries[i].k, entries[i].v, key = <<"s", "u", "g", "g", "e", "s", "t", "i", "o", "n", "s">>))
       \o set_loop(key, entries, i + 1, long, level)

write_set(s, key, values) ==
  LET long == Length(values) > 5
      s1 == IF long THEN increase_level(s) ELSE s
      s2 == IF long THEN decrease_level(s1) ELSE s1
  IN  Emit(write_key(s, Str(key)) \o <<"[">>
             \o (IF long THEN NewlineIndent(s1.level) ELSE <<>>)
             \o set_loop(key, Entries(values), 1, long, s1.level)
             \o (IF long THEN NewlineIndent(s2.level) ELSE <<>>)
             \o <<"]">>,
           s2, values)

RECURSIVE write_any(_, _, _)
RECURSIVE write_block(_, _, _, _)
RECURSIVE block_loop(_, _, _, _, _)
RECURSIVE expand_list(_, _, _)
RECURSIVE expand_loop(_, _, _, _, _)

\* the for loop of expand_list over values[n..]
expand_loop(s, key, values, n, acc) ==
  IF n >= Len(values.items)
  THEN Emit(acc, s, values)
  ELSE LET val == IF values.items[n + 1].t = "hole" THEN Undefined ELSE values.items[n + 1]
           r == write_any(s, key, val)
       IN  IF r.error # NoError
           THEN Raise(r.error, r.s, values)
           ELSE expand_loop(r.s, key,
                            [values EXCEPT !.items[n + 1] = r.val],
                            n + 1,
                            acc \o (IF n > 0 THEN <<"\n">> ELSE <<>>) \o r.out)

expand_list(s, key, values) ==
  IF values.t # "array"
  THEN Raise(TypeError, s, values)
  ELSE expand_loop(s,
                   IF key # <<"f", "i", "l", "t", "e", "r", "s">> /\ key # <<"b", "i", "n", "d", "_", "f", "i", "l", "t", "e", "r", "s">> THEN StripS(key) ELSE key,
                   values, 0, <<>>)

\* the for loop of write_block over entries i.. of the fields
block_loop(s, entries, i, fields, acc) ==
  IF i > Len(entries)
  THEN Emit(acc, s, fields)
  ELSE LET r == write_any(s, entries[i].k, entries[i].v)
       IN  IF r.error # NoError
           THEN Raise(r.error, r.s, Put(fields, entries[i].k, r.val))
           ELSE block_loop(r.s, entries, i + 1, Put(fields, entries[i].k, r.val),
                           acc \o (IF i > 1 THEN <<"\n">> ELSE <<>>) \o r.out)

\* write_block that never writes the name (C14 fails)
write_block_anonymous(s, key, fields, name) ==
  LET head == (IF s.field_counter > 0 THEN <<"\n">> ELSE <<>>)
              \o write_key(s, key) \o <<"{">>
      s1 == increase_level([s EXCEPT !.parent_key = key])
      r == block_loop(s1, Entries(fields), 1, fields, <<>>)
      s2 == decrease_level(r.s)
  IN  IF r.error # NoError
      THEN r
      ELSE Emit(head \o <<"\n">> \o r.out \o NewlineIndent(s2.level) \o <<"}">>,
                s2, r.val)

write_block(s, key, fields, name) ==
  LET head == (IF s.field_counter > 0 THEN <<"\n">> ELSE <<>>)
              \o write_key(s, key)
              \o (IF ~Falsy(name) THEN ToText(name) \o <<"{">> ELSE <<"{">>)
      s1 == increase_level([s EXCEPT !.parent_key = key])
      r == block_loop(s1, Entries(fields), 1, fields, <<>>)
      s2 == decrease_level(r.s)
  IN  IF r.error # NoError
      THEN r
      ELSE Emit(head \o <<"\n">> \o r.out \o NewlineIndent(s2.level) \o <<"}">>,
                s2, r.val)

\* this.field_counter += 1, the last statement of write_any
Counted(r) ==
  IF r.error # NoError THEN r
  ELSE [r EXCEPT !.s.field_counter = @ + 1]

write_any(s, key, value) ==
  IF TypeOf(value) = "string"
  THEN Counted(Emit(write_pair(s, key, value), s, value))
  ELSE IF TypeOf(value) = "object"
  THEN IF PluralKeyThrows(s, key)
       THEN Raise(TypeError, s, value)
       ELSE IF is_plural_key(s, key) /\ key \notin {<<"f", "i", "l", "t", "e", "r", "s">>, <<"b", "i", "n", "d", "_", "f", "i", "l", "t", "e", "r", "s">>}
       THEN Counted(expand_list(s, key, value))
       ELSE IF key \in KEYS_FOR_SETS
       THEN Counted(write_set(s, key, value))
       ELSE LET hoist == ~(key \in KEYS_WITH_NAME_FIELDS \/ ~HasKey(value, <<"n", "a", "m", "e">>))
                name == IF hoist THEN Get(value, <<"n", "a", "m", "e">>) ELSE Str(<<>>)
                fields == IF hoist THEN Delete(value, <<"n", "a", "m", "e">>) ELSE value
                block_key == IF IsNumericKey(key) THEN Get(fields, <<"n", "a", "m", "e">>) ELSE Str(key)
            IN  Counted(write_block(s, block_key, fields, name))
  ELSE Raise(TypeError, s, value)

\* the for loop of serialize over entries i.. of obj
RECURSIVE serialize_loop(_, _, _, _, _)
serialize_loop(s, entries, i, obj, acc) ==
  IF i > Len(entries)
  THEN Emit(acc, s, obj)
  ELSE LET r == write_any(s, entries[i].k, entries[i].v)
       IN  IF r.error # NoError
           THEN Raise(r.error, r.s, Put(obj, entries[i].k, r.val))
           ELSE serialize_loop(r.s, entries, i + 1, Put(obj, entries[i].k, r.val),
                               acc \o r.out)

\* new Serializer().serialize(obj)
serialize(obj) == serialize_loop(NewSerializer, Entries(obj), 1, obj, <<>>)

----------------------------------------------------------------------------
(* lkml.load and lkml.dump, after the Lexer has scanned.                    *)

\* load: new Parser(tokens).parse()
Parse ==
  /\ pc = "parse"
  /\ LET r == parse(tokens)
     IN  /\ parser' = r.p
         /\ IF r.error = NoError
            THEN /\ tree' = r.val
                 /\ pc' = "dump"
                 /\ error' = error
            ELSE /\ error' = r.error
                 /\ pc' = "load_failed"
                 /\ tree' = tree
  /\ UNCHANGED <<decls, input, round, text, index, line_number, tokens, chars,
                 out, dumped, again, serializer, first>>

\* dump: new Serializer().serialize(tree)
Dump ==
  /\ pc = "dump"
  /\ LET r == serialize(tree)
     IN  /\ serializer' = r.s
         /\ dumped' = r.val
         /\ IF r.error = NoError
            THEN /\ out' = r.out
                 /\ pc' = "dumped"
                 /\ error' = error
            ELSE /\ error' = r.error
                 /\ pc' = "dump_failed"
                 /\ out' = out
  /\ UNCHANGED <<decls, input, round, text, index, line_number, tokens, chars,
                 parser, tree, again, first>>

\* a second dump of the tree the first dump was given
DumpAgain ==
  /\ pc = "dumped"
  /\ LET r == serialize(dumped)
     IN  /\ again' = [out |-> r.out, error |-> r.error]
         /\ pc' = IF round = 1 THEN "reload" ELSE "done"
  /\ UNCHANGED <<decls, input, round, text, index, line_number, tokens, chars,
                 parser, tree, error, out, dumped, serializer, first>>

\* load of the text the first dump returned: new Lexer(out)
Reload ==
  /\ pc = "reload"
  /\ round = 1
  /\ first' = [tree |-> tree, out |-> out, dumped |-> dumped, again |-> again]
  /\ round' = 2
  /\ text' = out \o <<NUL>>
  /\ index' = 0
  /\ tokens' = <<>>
  /\ line_number' = 1
  /\ chars' = <<>>
  /\ pc' = "start"
  /\ parser' = NewParser
  /\ tree' = Undefined
  /\ out' = <<>>
  /\ dumped' = Undefined
  /\ again' = [out |-> <<>>, error |-> NoError]
  /\ serializer' = NewSerializer
  /\ UNCHANGED <<decls, input, error>>

Next ==
  \/ ScanStart
  \/ ScanToken
  \/ ScanQuotedChar
  \/ ScanExpressionChar
  \/ Parse
  \/ Dump
  \/ DumpAgain
  \/ Reload

\* the state after new Lexer(t), for the input text t written from the declarations ds
Start(ds, t) ==
  /\ decls = ds
  /\ input = t
  /\ round = 1
  /\ pc = "start"
  /\ text = t \o <<NUL>>
  /\ index = 0
  /\ tokens = <<>>
  /\ line_number = 1
  /\ chars = <<>>
  /\ parser = NewParser
  /\ tree = Undefined
  /\ error = NoError
  /\ out = <<>>
  /\ dumped = Undefined
  /\ again = [out |-> <<>>, error |-> NoError]
  /\ serializer = NewSerializer
  /\ first = [tree |-> Undefined, out |-> <<>>, dumped |-> Undefined,
               again |-> [out |-> <<>>, error |-> NoError]]

----------------------------------------------------------------------------
(* Input texts.  A text is written from a sequence of declarations, one per *)
(* line, indented two spaces per open block, with an empty line before a    *)
(* block that is not the first field of its parent and inside an empty      *)
(* block: the layout the Serializer writes.                                 *)

\* kind: "pair", "list", "open" (a block's first line), "close", "junk"
\* val: the value of a pair, the name of a block
\* canon: the declaration is written the way the Serializer writes its key
Decl(kind, key, val, body, canon) ==
  [kind |-> kind, key |-> key, val |-> val, body |-> body, canon |-> canon]

PairAB == Decl("pair", <<"a">>, <<"b">>, <<"a", ":", " ", "b">>, TRUE)
PairAC == Decl("pair", <<"a">>, <<"c">>, <<"a", ":", " ", "c">>, TRUE)
PairLabel ==
  Decl("pair", <<"l", "a", "b", "e", "l">>, <<"d">>,
       <<"l", "a", "b", "e", "l", ":", " ", "\"", "d", "\"">>, TRUE)
PairSql ==
  Decl("pair", <<"s", "q", "l">>, <<"e">>, <<"s", "q", "l", ":", " ", "e", " ", ";", ";">>, TRUE)
PairSets == Decl("pair", <<"s", "e", "t", "s">>, <<"b">>, <<"s", "e", "t", "s", ":", " ", "b">>, FALSE)
ListA == Decl("list", <<"a">>, <<>>, <<"a", ":", " ", "[", "c", "]">>, FALSE)
ListFields ==
  Decl("list", <<"f", "i", "e", "l", "d", "s">>, <<>>,
       <<"f", "i", "e", "l", "d", "s", ":", " ", "[", "b", ",", " ", "c", "]">>, TRUE)
OpenView ==
  Decl("open", <<"v", "i", "e", "w">>, <<"x">>, <<"v", "i", "e", "w", ":", " ", "x", "{">>, TRUE)
OpenRefinement ==
  Decl("open", <<"v", "i", "e", "w">>, <<"+", "x">>, <<"v", "i", "e", "w", ":", " ", "+", "x", "{">>, TRUE)
Close == Decl("close", <<>>, <<>>, <<"}">>, TRUE)
Junk == Decl("junk", <<>>, <<>>, <<"c">>, FALSE)

Decls ==
  { PairAB, PairAC, PairLabel, PairSql, PairSets, ListA, ListFields,
    OpenView, OpenRefinement, Close, Junk }

\* the sequences of at most n elements of S
RECURSIVE SeqsUpTo(_, _)
SeqsUpTo(S, n) ==
  IF n = 0 THEN {<<>>}
  ELSE LET shorter == SeqsUpTo(S, n - 1)
       IN  shorter \cup {Append(q, x) : q \in {r \in shorter : Len(r) = n - 1}, x \in S}

\* counts[d + 1]: the fields written so far in the open block at depth d
RECURSIVE RenderFrom(_, _, _)
RenderFrom(ds, i, counts) ==
  IF i > Len(ds) THEN <<>>
  ELSE LET d == ds[i]
           depth == Len(counts) - 1
           nl == IF i > 1 THEN <<"\n">> ELSE <<>>
           bump == [counts EXCEPT ![depth + 1] = @ + 1]
       IN  IF d.kind = "close"
           THEN nl \o (IF depth > 0 /\ counts[depth + 1] = 0 THEN <<"\n">> ELSE <<>>)
                \o Indent(depth - 1) \o d.body
                \o RenderFrom(ds, i + 1,
                              IF depth > 0 THEN SubSeq(counts, 1, depth) ELSE counts)
           ELSE IF d.kind = "open"
           THEN nl \o (IF counts[depth + 1] > 0 THEN <<"\n">> ELSE <<>>)
                \o Indent(depth) \o d.body
                \o RenderFrom(ds, i + 1, Append(bump, 0))
           ELSE nl \o Indent(depth) \o d.body \o RenderFrom(ds, i + 1, bump)

Render(ds) == RenderFrom(ds, 1, <<0>>)

\* the nesting depth before declaration i (0: top level); a stray "}" leaves 0
RECURSIVE DepthAt(_, _)
DepthAt(ds, i) ==
  IF i <= 1 THEN 0
  ELSE LET before == DepthAt(ds, i - 1)
       IN  CASE ds[i - 1].kind = "open" -> before + 1
             [] ds[i - 1].kind = "close" -> Max(before - 1, 0)
             [] OTHER -> before

Init == \E ds \in SeqsUpTo(Decls, MaxDecls) : Start(ds, Render(ds))

Spec == Init /\ [][Next]_vars

(* Raw texts, for the Lexer: any run of these words.                        *)

Words ==
  { <<"a">>, <<":">>, <<" ">>, <<"\n">>, <<";">>, <<"\"">>, <<"\\">>, <<"#">>,
    <<"{">>, <<"]">>, <<"[">>, <<"\r">>, <<"s", "q", "l">> }

LexInit == \E ws \in SeqsUpTo(Words, MaxWords) : Start(ws, Concat(ws))

LexSpec == LexInit /\ [][Next]_vars

\* scan() is a loop that runs until it ends: its steps are taken as long as
\* they change the Lexer
FairLexSpec == LexSpec /\ WF_vars(ScanStart \/ ScanToken \/ ScanQuotedChar \/ ScanExpressionChar)

----------------------------------------------------------------------------
(* Properties.                                                              *)

\* the tree holds what this round's load returned
Loaded == pc \in {"dump", "dumped", "reload", "done", "dump_failed"}

\* out holds what this round's dump returned
Dumped == pc \in {"dumped", "reload", "done"}

\* the blocks open after the first i declarations, a stray "}" counted
Opened(ds, i) ==
  Cardinality({k \in 1..i : ds[k].kind = "open"})
    - Cardinality({k \in 1..i : ds[k].kind = "close"})

\* every "}" closes a block and every block is closed
Balanced(ds) ==
  /\ \A i \in 1..Len(ds) : Opened(ds, i) >= 0
  /\ Opened(ds, Len(ds)) = 0

\* declarations i < j stand in the same block
Siblings(ds, i, j) ==
  /\ i < j
  /\ {ds[i].kind, ds[j].kind} \cap {"close", "junk"} = {}
  /\ DepthAt(ds, i) = DepthAt(ds, j)
  /\ \A k \in i..j : DepthAt(ds, k) >= DepthAt(ds, i)

\* no "}" without a block, no block without "}", no stray word
WellFormed(ds) ==
  /\ Balanced(ds)
  /\ \A i \in 1..Len(ds) : ds[i].kind # "junk"

\* the text is laid out as dump lays a tree out: every key spelled as dump
\* spells it, a key repeated in a block only if it is a repeatable key, and
\* then in consecutive declarations
Canonical(ds) ==
  /\ WellFormed(ds)
  /\ \A i \in 1..Len(ds) : ds[i].canon
  /\ \A i, j \in 1..Len(ds) :
       Siblings(ds, i, j) /\ ds[i].key = ds[j].key
         => /\ ds[i].key \in PLURAL_KEYS
            /\ \A k \in i..j : Siblings(ds, i, k) => ds[k].key = ds[i].key

\* C1: for a text t already in canonical form, dump(load(t)) returns t,
\* character for character.
C1_RoundTrip ==
  round = 1 /\ Canonical(decls)
    => /\ pc \notin {"load_failed", "dump_failed"}
       /\ Dumped => out = input


\* C2: for a tree T that load returned, load(dump(T)) returns T again.
C2_Reparse ==
  round = 2
    => /\ pc # "load_failed"
       /\ Loaded => tree = first.tree

\* the declarations at the top level of the text
TopLevel(ds) ==
  {i \in 1..Len(ds) : DepthAt(ds, i) = 0 /\ ds[i].kind \in {"pair", "list", "open"}}

\* the top-level declarations of key k, in the order of the text
TopOf(ds, k) ==
  SelectSeq([i \in 1..Len(ds) |-> i],
            LAMBDA i : i \in TopLevel(ds) /\ ds[i].key = k)

\* the field a declaration of a pair or of a block is loaded as
Loads(d, v) ==
  CASE d.kind = "pair" -> v = Str(d.val)
    [] d.kind = "open" -> v.t = "object" /\ Get(v, <<"n", "a", "m", "e">>) = Str(d.val)
    [] OTHER -> v.t = "array"

\* C3: the N declarations of a repeatable key k at one level are loaded as the
\* field k + "s", an array of the N values in the order of the text; the one
\* declaration of a key that is not repeatable is loaded as the field k itself,
\* a scalar or a mapping, not an array.
C3_Pluralization ==
  round = 1 /\ WellFormed(decls) /\ Loaded
    => \A i \in TopLevel(decls) :
         LET k == decls[i].key
             same == TopOf(decls, k)
             plural == k \o <<"s">>
         IN  IF k \in PLURAL_KEYS
             THEN /\ HasKey(tree, plural)
                  /\ Get(tree, plural).t = "array"
                  /\ Len(Get(tree, plural).items) = Len(same)
                  /\ \A n \in 1..Len(same) :
                       Loads(decls[same[n]], Get(tree, plural).items[n])
             ELSE Len(same) = 1
                    => /\ HasKey(tree, k)
                       /\ Loads(decls[i], Get(tree, k))

\* a key is repeatable if it is in the catalog, with or without a final "s"
Repeatable(k) == k \in PLURAL_KEYS \/ StripS(k) \in PLURAL_KEYS

\* the keys that are not repeatable and are declared twice in one block at
\* depth > 0
DepthDuplicates(ds) ==
  {k \in {ds[i].key : i \in 1..Len(ds)} :
     /\ ~Repeatable(k)
     /\ \E i, j \in 1..Len(ds) :
          /\ Siblings(ds, i, j)
          /\ DepthAt(ds, i) > 0
          /\ ds[i].key = k
          /\ ds[j].key = k }

\* C4: two declarations of one non-repeatable key at depth 0 are accepted, and
\* the field holds the value declared last.
C4_TopLevelDuplicate ==
  round = 1 /\ WellFormed(decls) /\ DepthDuplicates(decls) = {}
    => \A i, j \in TopLevel(decls) :
         /\ i < j
         /\ decls[i].key = decls[j].key
         /\ ~Repeatable(decls[i].key)
         /\ \A n \in TopLevel(decls) : n > j => decls[n].key # decls[j].key
         => /\ pc # "load_failed"
            /\ Loaded => /\ HasKey(tree, decls[j].key)
                         /\ Loads(decls[j], Get(tree, decls[j].key))

\* C5: a second declaration of a non-repeatable key in one block at depth > 0
\* makes load fail with the error that the key already exists, whether the
\* second declaration is a pair, a block or a list.
C5_DepthDuplicate ==
  round = 1 /\ WellFormed(decls) /\ DepthDuplicates(decls) # {}
    => /\ ~Loaded
       /\ pc = "load_failed"
            => error.kind = "Error" /\ error.key \in DepthDuplicates(decls)


\* the names of the top-level `view` blocks, in the order of the text
TopViews(ds) ==
  [n \in 1..Len(TopOf(ds, <<"v", "i", "e", "w">>)) |-> Str(ds[TopOf(ds, <<"v", "i", "e", "w">>)[n]].val)]

\* the `name` fields of the elements of an array
Names(v) == [n \in 1..Len(v.items) |-> Get(v.items[n], <<"n", "a", "m", "e">>)]

\* how many times the text t holds the text sub
Count(sub, t) ==
  Cardinality({i \in 1..(Len(t) - Len(sub) + 1) : SubSeq(t, i, i + Len(sub) - 1) = sub})

Refinements(ds) == {i \in 1..Len(ds) : ds[i] = OpenRefinement}

\* C6: a block `view: +x { ... }` is loaded as a mapping whose name is "+x",
\* appended in the order of the text to the array `views` that also holds the
\* blocks without "+", none merged with another; dump writes each such block
\* back with its name "+x".
C6_Refinement ==
  round = 1 /\ WellFormed(decls) /\ Refinements(decls) # {}
    => /\ Loaded => /\ HasKey(tree, <<"v", "i", "e", "w", "s">>)
                    /\ Get(tree, <<"v", "i", "e", "w", "s">>).t = "array"
                    /\ Names(Get(tree, <<"v", "i", "e", "w", "s">>)) = TopViews(decls)
       /\ Dumped => Count(OpenRefinement.body, out) = Cardinality(Refinements(decls))

\* a block x and a refinement +x at the top level have been loaded and dumped
C6_Witness ==
  /\ round = 1
  /\ Dumped
  /\ WellFormed(decls)
  /\ \E i, j \in TopLevel(decls) :
       i < j /\ decls[i] = OpenView /\ decls[j] = OpenRefinement
  /\ Names(Get(tree, <<"v", "i", "e", "w", "s">>)) = TopViews(decls)

\* C7: scan returns on every text, with a token sequence that begins with the
\* stream-start token and ends with the only stream-end token; a ";" that no
\* ";" follows is read without a token and without an error.
C7_ScanTerminates ==
  <>(/\ round = 1
     /\ pc = "parse"
     /\ tokens[1].name = "StreamStartToken"
     /\ \A n \in 1..Len(tokens) :
          tokens[n].name = "StreamEndToken" <=> n = Len(tokens))

\* C8: in a quoted literal or an expression block that the text does not
\* close, the Lexer reads up to the end of the text and stops there.
C8_UnterminatedStops ==
  pc \in {"quoted", "expression"} => index < Len(text)

\* progress never decreased
Monotone(history) ==
  \A n \in 1..(Len(history) - 1) : history[n] <= history[n + 1]

\* C9: when no rule matches, load returns no tree and the syntax error names
\* the token at the largest index the cursor reached; progress, which holds
\* that index after each backtrack, never decreases.
C9_FarthestToken ==
  /\ Monotone(parser.history)
  /\ pc = "load_failed" /\ error.kind = "SyntaxError"
       => /\ tree = Undefined
          /\ parser.progress = parser.reached
          /\ error.id = tokens[parser.reached + 1].id
          /\ error.line_number = tokens[parser.reached + 1].line_number

\* a syntax error with the cursor backtracked behind the token it names, after
\* a backtrack that left progress as it was
C9_Witness ==
  /\ pc = "load_failed"
  /\ error.kind = "SyntaxError"
  /\ parser.index < parser.progress
  /\ parser.progress > 1
  /\ \E n \in 2..(Len(parser.history) - 1) :
       parser.history[n] = parser.history[n + 1]

\* C10: dump leaves the tree it is given as it was, and a second dump of that
\* tree returns the same text.
C10_DumpPure ==
  /\ Dumped => dumped = tree
  /\ pc \in {"reload", "done"} => again.error = NoError /\ again.out = out

----------------------------------------------------------------------------
(* Trees given to dump by a caller: lkml.dump(obj) on an object that the    *)
(* caller built, then load of the text and a second dump.                   *)

\* entries per set or list of a tree
MaxElems == 6
\* labeled entries per labeled set
MaxLabeled == 2

\* the state at the call dump(t) of a caller that has loaded nothing
StartDump(t) ==
  /\ decls = <<>>
  /\ input = <<>>
  /\ round = 1
  /\ pc = "dump"
  /\ text = <<NUL>>
  /\ index = 0
  /\ tokens = <<>>
  /\ line_number = 1
  /\ chars = <<>>
  /\ parser = NewParser
  /\ tree = t
  /\ error = NoError
  /\ out = <<>>
  /\ dumped = Undefined
  /\ again = [out |-> <<>>, error |-> NoError]
  /\ serializer = NewSerializer
  /\ first = [tree |-> Undefined, out |-> <<>>, dumped |-> Undefined,
              again |-> [out |-> <<>>, error |-> NoError]]

\* the tree the caller gave to the first dump
Given == IF round = 1 THEN tree ELSE first.tree

\* the sequences of at most n different elements of S
DistinctSeqs(S, n) ==
  {q \in SeqsUpTo(S, n) : \A i, j \in 1..Len(q) : q[i] = q[j] => i = j}

Labels == { <<"a">>, <<"b">>, <<"u", ".", "s">> }
LabelValues == { <<"d">>, <<"7", " ", "d">> }

\* a labeled set: an array without elements whose properties are the labels
LabeledSet(ls, vs) == Arr(<<>>, [n \in 1..Len(ls) |-> Field(ls[n], Str(vs[n]))])

LabeledSets ==
  { LabeledSet(ls, vs) :
      ls \in DistinctSeqs(Labels, MaxLabeled),
      vs \in {q \in SeqsUpTo(LabelValues, MaxLabeled) : Len(q) = MaxLabeled} }

\* {filters: v}
Filters(v) == Obj(<<Field(<<"f", "i", "l", "t", "e", "r", "s">>, v)>>)

\* {measures: [{filters: v, name: "m"}]}
MeasureFilters(v) ==
  Obj(<<Field(<<"m", "e", "a", "s", "u", "r", "e", "s">>,
              Arr(<<Obj(<<Field(<<"f", "i", "l", "t", "e", "r", "s">>, v), Field(<<"n", "a", "m", "e">>, Str(<<"m">>))>>)>>,
                  <<>>))>>)

FilterTrees == {Filters(v) : v \in LabeledSets} \cup {MeasureFilters(v) : v \in LabeledSets}

\* the elements a plain set is built from
ElemNames == <<"a", "b", "c", "d", "e", "f", "g">>

\* a plain set of n elements: an array of strings
PlainSet(n) == Arr([i \in 1..n |-> Str(<<ElemNames[i]>>)], <<>>)

PlainSets == {PlainSet(n) : n \in 0..MaxElems}

\* a labeled set of n entries
LongLabeledSet(n) ==
  LabeledSet([i \in 1..n |-> <<ElemNames[i]>>], [i \in 1..n |-> <<"d">>])

\* {fields: v}
Fields(v) == Obj(<<Field(<<"f", "i", "e", "l", "d", "s">>, v)>>)

\* {explores: [{fields: v, name: "e"}]}
ExploreFields(v) ==
  Obj(<<Field(<<"e", "x", "p", "l", "o", "r", "e", "s">>,
              Arr(<<Obj(<<Field(<<"f", "i", "e", "l", "d", "s">>, v), Field(<<"n", "a", "m", "e">>, Str(<<"e">>))>>)>>,
                  <<>>))>>)

SetTrees ==
  {Fields(v) : v \in PlainSets} \cup {ExploreFields(v) : v \in PlainSets}
    \cup {Filters(LongLabeledSet(MaxElems))}

\* keys of scalar fields: two quoted keys, two expression block keys, and
\* three keys of neither catalog
ScalarKeys == { <<"l", "a", "b", "e", "l">>, <<"n", "a", "m", "e">>, <<"s", "q", "l">>, <<"h", "t", "m", "l">>, <<"t", "y", "p", "e">>, <<"h", "i", "d", "d", "e", "n">>, <<"s", "u", "g", "g", "e", "s", "t", "i", "o", "n", "s">> }
ScalarValues == { <<"y">>, <<"1", " ", "d">> }

\* {k: v}
Scalar(k, v) == Obj(<<Field(k, Str(v))>>)

\* {dimensions: [{k: v}]}
DimensionScalar(k, v) ==
  Obj(<<Field(<<"d", "i", "m", "e", "n", "s", "i", "o", "n", "s">>, Arr(<<Obj(<<Field(k, Str(v))>>)>>, <<>>))>>)

\* {suggestions: v}
Suggestions(v) == Obj(<<Field(<<"s", "u", "g", "g", "e", "s", "t", "i", "o", "n", "s">>, v)>>)

\* the sets of one or two elements
ShortSets == {PlainSet(1), PlainSet(2)}

ScalarTrees ==
  {Scalar(k, v) : k \in ScalarKeys \ {<<"n", "a", "m", "e">>}, v \in ScalarValues}
    \cup {DimensionScalar(k, v) : k \in ScalarKeys \ {<<"n", "a", "m", "e">>}, v \in ScalarValues}
    \cup {Obj(<<Field(<<"p", "a", "r", "a", "m", "s">>, Arr(<<Scalar(<<"n", "a", "m", "e">>, v)>>, <<>>))>>) : v \in ScalarValues}
    \cup {Suggestions(v) : v \in ShortSets}

\* keys of nested mappings: two of KEYS_WITH_NAME_FIELDS and two others
BlockKeys == { <<"p", "a", "r", "a", "m">>, <<"o", "p", "t", "i", "o", "n">>, <<"d", "i", "m", "e", "n", "s", "i", "o", "n">>, <<"q", "u", "e", "r", "y">> }

\* the fields a nested mapping is built from
BlockFields ==
  { Field(<<"n", "a", "m", "e">>, Str(<<"n">>)), Field(<<"t", "y", "p", "e">>, Str(<<"t">>)),
    Field(<<"l", "a", "b", "e", "l">>, Str(<<"l">>)) }

\* the mappings of at most MaxWords different fields, in every order
Mappings == {Obj(fs) : fs \in DistinctSeqs(BlockFields, MaxWords)}

\* {k: m}
Block(k, m) == Obj(<<Field(k, m)>>)

\* {view: {outer: o, k: m}}
ViewBlock(k, m) ==
  Obj(<<Field(<<"v", "i", "e", "w">>, Obj(<<Field(<<"o", "u", "t", "e", "r">>, Str(<<"o">>)), Field(k, m)>>))>>)

BlockTrees ==
  {Block(k, m) : k \in BlockKeys, m \in Mappings}
    \cup {ViewBlock(k, m) : k \in BlockKeys, m \in Mappings}

\* trees that hold the boolean false: as a field, as a field of a block, as an
\* element of the array of a repeated key, as a field of a block of such an
\* array, as an element of a set and as the value of a labeled entry
ShapeTrees ==
  { Obj(<<Field(<<"h", "i", "d", "d", "e", "n">>, JSFalse)>>),
    Obj(<<Field(<<"t", "y", "p", "e">>, Str(<<"t">>)), Field(<<"h", "i", "d", "d", "e", "n">>, JSFalse)>>),
    Block(<<"v", "i", "e", "w">>, Obj(<<Field(<<"l", "a", "b", "e", "l">>, Str(<<"l">>)), Field(<<"h", "i", "d", "d", "e", "n">>, JSFalse)>>)),
    Obj(<<Field(<<"d", "i", "m", "e", "n", "s", "i", "o", "n", "s">>, Arr(<<JSFalse>>, <<>>))>>),
    Obj(<<Field(<<"d", "i", "m", "e", "n", "s", "i", "o", "n", "s">>, Arr(<<Obj(<<Field(<<"n", "a", "m", "e">>, Str(<<"n">>))>>),
                                      Obj(<<Field(<<"h", "i", "d", "d", "e", "n">>, JSFalse)>>)>>, <<>>))>>),
    Fields(Arr(<<JSFalse>>, <<>>)),
    Fields(Arr(<<Str(<<"a">>), JSFalse>>, <<>>)),
    Suggestions(Arr(<<JSFalse>>, <<>>)),
    Filters(Arr(<<>>, <<Field(<<"a">>, JSFalse)>>)) }

\* the elements of the array of a repeated key: mappings with and without a
\* name, and a string
RepeatKeys == { <<"d", "i", "m", "e", "n", "s", "i", "o", "n", "s">>, <<"i", "n", "c", "l", "u", "d", "e", "s">> }
RepeatElems ==
  { Obj(<<Field(<<"n", "a", "m", "e">>, Str(<<"n">>))>>),
    Obj(<<Field(<<"t", "y", "p", "e">>, Str(<<"t">>)), Field(<<"n", "a", "m", "e">>, Str(<<"m">>))>>),
    Obj(<<Field(<<"l", "a", "b", "e", "l">>, Str(<<"l">>))>>),
    Str(<<"x">>) }

\* the arrays of at least one and at most MaxWords elements
RepeatArrays == {Arr(es, <<>>) : es \in SeqsUpTo(RepeatElems, MaxWords) \ {<<>>}}

\* {k: a}
Repeated(k, a) == Obj(<<Field(k, a)>>)

\* {view: {outer: o, k: a}}
ViewRepeated(k, a) ==
  Obj(<<Field(<<"v", "i", "e", "w">>, Obj(<<Field(<<"o", "u", "t", "e", "r">>, Str(<<"o">>)), Field(k, a)>>))>>)

RepeatTrees ==
  {Repeated(k, a) : k \in RepeatKeys, a \in RepeatArrays}
    \cup {ViewRepeated(k, a) : k \in RepeatKeys, a \in RepeatArrays}

\* the fields of a block that holds nested blocks and the arrays of
\* pluralized keys of PLURAL_KEYS
NestFields ==
  { Field(<<"l", "a", "b", "e", "l">>, Str(<<"l">>)),
    Field(<<"m", "e", "a", "s", "u", "r", "e">>, Obj(<<Field(<<"n", "a", "m", "e">>, Str(<<"n">>))>>)),
    Field(<<"a", "c", "c", "e", "s", "s", "_", "g", "r", "a", "n", "t">>, Obj(<<Field(<<"n", "a", "m", "e">>, Str(<<"g">>))>>)),
    Field(<<"a", "l", "l", "o", "w", "e", "d", "_", "v", "a", "l", "u", "e", "s">>, Arr(<<Obj(<<Field(<<"v", "a", "l", "u", "e">>, Str(<<"v">>))>>)>>, <<>>)),
    Field(<<"d", "i", "m", "e", "n", "s", "i", "o", "n", "s">>, Arr(<<Obj(<<Field(<<"n", "a", "m", "e">>, Str(<<"d">>))>>)>>, <<>>)),
    Field(<<"b", "i", "n", "d", "_", "f", "i", "l", "t", "e", "r", "s">>, Arr(<<Obj(<<Field(<<"f", "i", "e", "l", "d">>, Str(<<"f">>))>>)>>, <<>>)) }

NestOuters == { <<"v", "i", "e", "w">>, <<"a", "c", "c", "e", "s", "s", "_", "g", "r", "a", "n", "t">> }

NestSeqs == DistinctSeqs(NestFields, MaxWords) \ {<<>>}

NestTrees == {Block(k, Obj(fs)) : k \in NestOuters, fs \in NestSeqs}

\* arrays of mappings given to dump in the place of the tree, and as the
\* value of a key that is in no catalog
PositionalElems ==
  { Obj(<<Field(<<"n", "a", "m", "e">>, Str(<<"n">>)), Field(<<"t", "y", "p", "e">>, Str(<<"t">>))>>),
    Obj(<<Field(<<"t", "y", "p", "e">>, Str(<<"t">>)), Field(<<"n", "a", "m", "e">>, Str(<<"m">>))>>),
    Obj(<<Field(<<"n", "a", "m", "e">>, Str(<<"n">>))>>) }

PositionalArrays == {Arr(es, <<>>) : es \in SeqsUpTo(PositionalElems, MaxWords) \ {<<>>}}

PositionalTrees ==
  PositionalArrays \cup {Block(<<"l", "i", "s", "t">>, a) : a \in PositionalArrays}

\* trees of several fields at the top level: pairs, a set and a block
TopFields ==
  { Field(<<"l", "a", "b", "e", "l">>, Str(<<"l">>)),
    Field(<<"h", "i", "d", "d", "e", "n">>, Str(<<"y">>)),
    Field(<<"f", "i", "e", "l", "d", "s">>, Arr(<<Str(<<"a">>), Str(<<"b">>)>>, <<>>)),
    Field(<<"v", "i", "e", "w">>, Obj(<<Field(<<"n", "a", "m", "e">>, Str(<<"v">>)), Field(<<"t", "y", "p", "e">>, Str(<<"t">>)),
                          Field(<<"s", "q", "l">>, Str(<<"x">>))>>)) }

TopSeqs == DistinctSeqs(TopFields, MaxWords) \ {<<>>}

TopTrees == {Obj(fs) : fs \in TopSeqs}

Trees ==
  FilterTrees \cup SetTrees \cup ScalarTrees \cup BlockTrees \cup ShapeTrees
    \cup RepeatTrees \cup NestTrees \cup PositionalTrees \cup TopTrees

TreeInit == \E t \in Trees : StartDump(t)

TreeSpec == TreeInit /\ [][Next]_vars


\* l1: "v1", l2: "v2", ... for the entries of a labeled set
RECURSIVE LabeledLine(_)
LabeledLine(fields) ==
  IF fields = <<>> THEN <<>>
  ELSE Head(fields).k \o <<":", " ", "\"">> \o Head(fields).v.s \o <<"\"">>
       \o (IF Len(fields) > 1 THEN <<",", " ">> ELSE <<>>)
       \o LabeledLine(Tail(fields))

FiltersLine(v) == <<"f", "i", "l", "t", "e", "r", "s", ":", " ", "[">> \o LabeledLine(v.fields) \o <<"]">>

RECURSIVE JoinWith(_, _)
JoinWith(q, sep) ==
  IF q = <<>> THEN <<>>
  ELSE Head(q) \o (IF Len(q) > 1 THEN sep ELSE <<>>) \o JoinWith(Tail(q), sep)

\* the texts of the elements of a set: e for an element, l: "v" for an entry
ElementTexts(v) ==
  [i \in 1..Len(v.items) |-> v.items[i].s]
    \o [i \in 1..Len(v.fields) |-> v.fields[i].k \o <<":", " ", "\"">> \o v.fields[i].v.s \o <<"\"">>]

\* key: [e1, e2, ...] on one line for at most five elements, one element per
\* line, a level deeper, for more
SetText(level, key, v) ==
  LET es == ElementTexts(v)
  IN  Indent(level) \o key \o <<":", " ", "[">>
        \o (IF Len(es) <= 5
            THEN JoinWith(es, <<",", " ">>)
            ELSE NewlineIndent(level + 1)
                   \o JoinWith(es, <<",">> \o NewlineIndent(level + 1))
                   \o NewlineIndent(level))
        \o <<"]">>

\* C12: a set of at most five elements is written on one line, the elements
\* joined by ", "; a set of more than five elements is written one element per
\* line a level deeper, the elements separated by "," and newline + indent, and
\* the closing bracket after newline + the indent of the field; for a plain
\* list and for a labeled set.
C12_SetWrapping ==
  Dumped =>
    /\ \A v \in PlainSets :
         /\ Given = Fields(v) => out = SetText(0, <<"f", "i", "e", "l", "d", "s">>, v)
         /\ Given = ExploreFields(v)
              => out = <<"e", "x", "p", "l", "o", "r", "e", ":", " ", "e", "{">> \o <<"\n">> \o SetText(1, <<"f", "i", "e", "l", "d", "s">>, v) \o <<"\n", "}">>
    /\ \A v \in {LongLabeledSet(MaxElems)} :
         Given = Filters(v) => out = SetText(0, <<"f", "i", "l", "t", "e", "r", "s">>, v)

\* the part of C12 about sets of at most five elements
C12_Inline ==
  Dumped =>
    \A v \in PlainSets :
      Len(v.items) <= 5 =>
        /\ Given = Fields(v) => out = SetText(0, <<"f", "i", "e", "l", "d", "s">>, v)
        /\ Given = ExploreFields(v)
             => out = <<"e", "x", "p", "l", "o", "r", "e", ":", " ", "e", "{">> \o <<"\n">> \o SetText(1, <<"f", "i", "e", "l", "d", "s">>, v) \o <<"\n", "}">>

\* key: value, the value in double quotes for a quoted key, followed by " ;;"
\* for an expression block key, as it is otherwise
PairText(level, k, v) ==
  Indent(level) \o k \o <<":", " ">>
    \o (IF k \in QUOTED_LITERAL_KEYS THEN <<"\"">> \o v \o <<"\"">>
        ELSE IF k \in EXPR_BLOCK_KEYS THEN v \o <<" ", ";", ";">>
        ELSE v)

Hoisted(k, m) == HasKey(m, <<"n", "a", "m", "e">>) /\ k \notin KEYS_WITH_NAME_FIELDS

\* key: name{ or key: {, the fields one per line a level deeper in the order of
\* the mapping, and the closing brace at the indent of the key
BlockText(level, k, m) ==
  LET inside == IF Hoisted(k, m)
                THEN SelectSeq(m.fields, LAMBDA f : f.k # <<"n", "a", "m", "e">>)
                ELSE m.fields
  IN  Indent(level) \o k \o <<":", " ">>
        \o (IF Hoisted(k, m) THEN Get(m, <<"n", "a", "m", "e">>).s ELSE <<>>)
        \o <<"{", "\n">>
        \o JoinWith([i \in 1..Len(inside) |-> PairText(level + 1, inside[i].k, inside[i].v.s)], <<"\n">>)
        \o NewlineIndent(level) \o <<"}">>

\* C14: a nested mapping is written as a block.  With a name field and a key
\* outside KEYS_WITH_NAME_FIELDS the name stands between the key and the brace
\* and is no field of the block; with a key of KEYS_WITH_NAME_FIELDS or
\* without a name field nothing stands between the key and the brace and a
\* name field is written inside; the fields are written in the order of the
\* mapping.  (A block that follows another field starts after an empty line.)
C14_Block ==
  Dumped =>
    \A k \in BlockKeys, m \in Mappings :
      /\ Given = Block(k, m) => out = BlockText(0, k, m)
      /\ Given = ViewBlock(k, m)
           => out = <<"v", "i", "e", "w", ":", " ", "{">> \o <<"\n">> \o PairText(1, <<"o", "u", "t", "e", "r">>, <<"o">>) \o <<"\n", "\n">>
                      \o BlockText(1, k, m) \o <<"\n", "}">>

\* a dimension with a name between two other fields has been dumped inside a
\* view: the name stands before the brace, the other fields inside
C14_Witness ==
  /\ Dumped
  /\ Given = ViewBlock(<<"d", "i", "m", "e", "n", "s", "i", "o", "n">>, Obj(<<Field(<<"t", "y", "p", "e">>, Str(<<"t">>)), Field(<<"n", "a", "m", "e">>, Str(<<"n">>)),
                                   Field(<<"l", "a", "b", "e", "l">>, Str(<<"l">>))>>))
  /\ out = <<"v", "i", "e", "w", ":", " ", "{">> \o <<"\n">> \o <<" ", " ", "o", "u", "t", "e", "r", ":", " ", "o">> \o <<"\n", "\n">>
             \o <<" ", " ", "d", "i", "m", "e", "n", "s", "i", "o", "n", ":", " ", "n", "{">> \o <<"\n">> \o <<" ", " ", " ", " ", "t", "y", "p", "e", ":", " ", "t">> \o <<"\n">>
             \o <<" ", " ", " ", " ", "l", "a", "b", "e", "l", ":", " ", "\"", "l", "\"">> \o <<"\n">> \o <<" ", " ", "}">> \o <<"\n", "}">>

\* every value of the tree v, at every depth, is a string, an array, a labeled
\* set or a mapping
RECURSIVE Shaped(_)
Shaped(v) ==
  /\ v.t \in {"string", "array", "object"}
  /\ \A i \in 1..Len(v.items) : Shaped(v.items[i])
  /\ \A i \in 1..Len(v.fields) : Shaped(v.fields[i].v)

\* C15: dump of a tree that holds, at any depth, as a field or as an element
\* of an array or of a set, a value that is no string, array, labeled set or
\* mapping ends with a TypeError and returns no text.
C15_ShapeError ==
  round = 1 /\ pc # "dump" /\ ~Shaped(Given)
    => pc = "dump_failed" /\ error = TypeError /\ out = <<>>

\* the part of C15 about fields and elements of the array of a repeated key
C15_FieldShapeError ==
  \A t \in ShapeTrees :
    /\ round = 1 /\ pc # "dump" /\ Given = t
    /\ \A i \in 1..Len(t.fields) : t.fields[i].k \notin KEYS_FOR_SETS
    => pc = "dump_failed" /\ error = TypeError /\ out = <<>>

----------------------------------------------------------------------------
(* Expression blocks, for the Lexer: a key of EXPR_BLOCK_KEYS, ":", any run *)
(* of these words, and ";;".                                                *)

ExprKeys == { <<"s", "q", "l">>, <<"h", "t", "m", "l">> }

ExprWords ==
  { <<"a">>, <<" ">>, <<"\n">>, <<"#">>, <<"{">>, <<"}">>, <<"[">>, <<"]">>,
    <<":">>, <<",">>, <<";">>, <<"\"">> }

ExprInit ==
  \E k \in ExprKeys, ws \in SeqsUpTo(ExprWords, MaxWords) :
    Start(<<k>> \o ws, k \o <<":">> \o Concat(ws) \o <<";", ";">>)

ExprSpec == ExprInit /\ [][Next]_vars

\* the least index from i on where ";;" stands in t
RECURSIVE FirstEnd(_, _)
FirstEnd(t, i) ==
  IF i >= Len(t) \/ Substring(t, i, i + 2) = <<";", ";">> THEN i ELSE FirstEnd(t, i + 1)

\* the key the text begins with
ExprKey(t) == CHOOSE k \in EXPR_BLOCK_KEYS : StartsWith(t, k \o <<":">>)

\* the text between the colon after the key and the first ";;" after it
Between(t) == Substring(t, Len(ExprKey(t)) + 1, FirstEnd(t, Len(ExprKey(t)) + 1))

Structural == {"BlockStartToken", "BlockEndToken", "ListStartToken", "ListEndToken",
               "ValueToken", "CommaToken"}

\* C16: for a text that begins with a key of EXPR_BLOCK_KEYS and ":", scan
\* returns, after the stream start, the literal of the key, the colon, an
\* expression block and the expression block end, in this order; the
\* expression block holds the text between the colon and the first ";;" after
\* it without the white space at its ends, and the characters of that text
\* give no token of their own.
C16_ExpressionBlock ==
  round = 1 /\ pc = "parse" =>
    /\ Len(tokens) >= 5
    /\ tokens[2].name = "LiteralToken" /\ tokens[2].chars = ExprKey(input)
    /\ tokens[3].name = "ValueToken"
    /\ tokens[4].name = "ExpressionBlockToken" /\ tokens[4].chars = Trim(Between(input))
    /\ tokens[5].name = "ExpressionBlockEndToken"
    /\ FirstEnd(input, Len(ExprKey(input)) + 1) = Len(input) - 2
         => Len(tokens) = 6 /\ tokens[6].name = "StreamEndToken"

\* C16 for the texts where no comment follows the colon
C16_WithoutComment ==
  /\ round = 1 /\ pc = "parse"
  /\ Head(TrimLeft(Between(input)) \o <<"a">>) # "#"
  => /\ Len(tokens) >= 5
     /\ tokens[2].name = "LiteralToken" /\ tokens[2].chars = ExprKey(input)
     /\ tokens[3].name = "ValueToken"
     /\ tokens[4].name = "ExpressionBlockToken" /\ tokens[4].chars = Trim(Between(input))
     /\ tokens[5].name = "ExpressionBlockEndToken"
     /\ FirstEnd(input, Len(ExprKey(input)) + 1) = Len(input) - 2
          => Len(tokens) = 6 /\ tokens[6].name = "StreamEndToken"

\* C17: the characters of every literal token that scan returns are at least
\* one, and none of them is white space or one of { } [ ] , :
C17_BareLiteral ==
  \A n \in 1..Len(tokens) :
    tokens[n].name = "LiteralToken"
      => /\ tokens[n].chars # <<>>
         /\ \A i \in 1..Len(tokens[n].chars) :
              tokens[n].chars[i] \notin WhiteSpace \cup {"{", "}", "[", "]", ",", ":"}

\* C17 with the characters scan_literal stops at
C17_LiteralStops ==
  \A n \in 1..Len(tokens) :
    tokens[n].name = "LiteralToken"
      => /\ tokens[n].chars # <<>>
         /\ \A i \in 1..Len(tokens[n].chars) : tokens[n].chars[i] \notin LiteralStops

----------------------------------------------------------------------------
(* The grammar rules, each tried at every index of the tokens scan returned. *)

Rules == {"block", "pair", "list", "key", "value", "csv"}

\* the call of a rule on the Parser p
Try(rule, toks, p) ==
  CASE rule = "block" -> parse_block(toks, p)
    [] rule = "pair" -> parse_pair(toks, p)
    [] rule = "list" -> parse_list(toks, p)
    [] rule = "key" -> parse_key(toks, p)
    [] rule = "value" -> parse_value(toks, p)
    [] rule = "csv" -> parse_csv(toks, p)

\* a Parser whose cursor is at index i, at depth d
ParserAt(i, d) == [NewParser EXCEPT !.index = i, !.depth = d, !.reached = i]

\* the depths a rule is called at
Depths == {-1, 0, 1, 2}

\* the rule returned false
NoMatch(r) == r.error = NoError /\ r.val = JSFalse

\* C18: a grammar rule (block, pair, list, key, value, csv) that returns false
\* leaves the cursor at the index it had when the rule was called.
C18_BacktrackRestores ==
  pc \in {"dump", "load_failed"} =>
    \A rule \in Rules, i \in 0..Len(tokens), d \in Depths :
      Bind(Try(rule, tokens, ParserAt(i, d)), LAMBDA r :
        NoMatch(r) => r.p.index = i)

\* load has run on tokens where a block, a list and a pair each read two
\* tokens or more, returned false and left the cursor where it was
C18_Witness ==
  /\ pc \in {"dump", "load_failed"}
  /\ \A rule \in {"block", "list", "pair"} :
       \E i \in 0..Len(tokens) :
         Bind(Try(rule, tokens, ParserAt(i, 0)), LAMBDA r :
           NoMatch(r) /\ r.p.index = i /\ r.p.progress >= i + 2)

\* C19: when load returns a tree the cursor of the Parser is at the stream end
\* token, the last token, and every token before it was read; tokens that no
\* rule matches make load fail with a SyntaxError.
C19_WholeInput ==
  pc = "dump" /\ tokens # <<>> =>
    /\ parser.index = Len(tokens) - 1
    /\ tokens[parser.index + 1].name = "StreamEndToken"

\* C19 for the texts without a "}" that closes no block
C19_WholeBalancedInput ==
  /\ pc = "dump" /\ tokens # <<>>
  /\ \A n \in 1..Len(tokens) :
       Cardinality({m \in 1..n : tokens[m].name = "BlockEndToken"})
         <= Cardinality({m \in 1..n : tokens[m].name = "BlockStartToken"})
  => /\ parser.index = Len(tokens) - 1
     /\ tokens[parser.index + 1].name = "StreamEndToken"

----------------------------------------------------------------------------
(* Lists, for the Parser: a key, "[", elements separated by ", ", a comma   *)
(* or none, and "]".                                                        *)

\* an element of a list: bare, or a label, ": " and a quoted value
Bare(v) == Decl("bare", <<>>, v, v, TRUE)
Labeled(k, v) == Decl("labeled", k, v, k \o <<":", " ", "\"">> \o v \o <<"\"">>, TRUE)
TrailingComma == Decl("comma", <<>>, <<>>, <<",">>, FALSE)

ListElems ==
  { Bare(<<"a">>), Bare(<<"b">>),
    Labeled(<<"a">>, <<"x">>), Labeled(<<"b">>, <<"y">>), Labeled(<<"a">>, <<"y">>),
    Labeled(<<"1">>, <<"x">>), Labeled(<<"l", "e", "n", "g", "t", "h">>, <<"x">>),
    Labeled(<<"s", "q", "l">>, <<"x">>) }

ListKeys == { <<"f", "i", "e", "l", "d", "s">>, <<"f", "i", "l", "t", "e", "r", "s">> }

\* the elements of a list of the declarations ds
Elements(ds) == SelectSeq(ds, LAMBDA d : d.kind # "comma")

\* k: [e1, e2, ...] with the comma after the last element if ds has one
ListText(k, ds) ==
  k \o <<":", " ", "[">>
    \o JoinWith([i \in 1..Len(Elements(ds)) |-> Elements(ds)[i].body], <<",", " ">>)
    \o (IF Len(ds) > Len(Elements(ds)) THEN <<",">> ELSE <<>>)
    \o <<"]">>

ListInit ==
  \E k \in ListKeys, es \in SeqsUpTo(ListElems, MaxWords), tail \in {<<>>, <<TrailingComma>>} :
    /\ es = <<>> => tail = <<>>
    /\ Start(<<Decl("list", k, <<>>, <<>>, TRUE)>> \o es \o tail, ListText(k, es \o tail))

ListSpec == ListInit /\ [][Next]_vars

\* the elements of the list the text was written from
Source == Elements(Tail(decls))

\* what load returned for the key of the list
Parsed == Get(IF round = 1 THEN tree ELSE first.tree, decls[1].key)

AllOf(kind) == \A n \in 1..Len(Source) : Source[n].kind = kind

\* C20: load of key: [e1, ..., en] returns under the key one entry for each
\* element, in the order of the text: n strings for n bare elements, n
\* (label, value) pairs for n labeled elements; a list of bare and labeled
\* elements is read as well; a comma after the last element changes nothing.
C20_ListEntries ==
  /\ pc # "load_failed" \/ round = 2
  /\ (round = 2 \/ Loaded) =>
       /\ Len(Entries(Parsed)) = Len(Source)
       /\ AllOf("bare") =>
            Parsed = Arr([n \in 1..Len(Source) |-> Str(Source[n].val)], <<>>)
       /\ AllOf("labeled") =>
            Entries(Parsed) = [n \in 1..Len(Source) |-> Field(Source[n].key, Str(Source[n].val))]

\* the labels of the text differ from each other, and none is an array index,
\* the name length or a key of EXPR_BLOCK_KEYS
PlainLabels ==
  \A n \in 1..Len(Source) :
    Source[n].kind = "labeled"
      => /\ ~IsIndexKey(Source[n].key)
         /\ Source[n].key # <<"l", "e", "n", "g", "t", "h">>
         /\ Source[n].key \notin EXPR_BLOCK_KEYS
         /\ \A m \in 1..Len(Source) :
              Source[m].kind = "labeled" /\ Source[m].key = Source[n].key => m = n

\* C20 for the lists whose labels are PlainLabels
C20_PlainLabelEntries ==
  PlainLabels =>
    /\ pc # "load_failed" \/ round = 2
    /\ (round = 2 \/ Loaded) =>
         /\ Len(Entries(Parsed)) = Len(Source)
         /\ AllOf("bare") =>
              Parsed = Arr([n \in 1..Len(Source) |-> Str(Source[n].val)], <<>>)
         /\ AllOf("labeled") =>
              Entries(Parsed) = [n \in 1..Len(Source) |-> Field(Source[n].key, Str(Source[n].val))]

----------------------------------------------------------------------------
(* Lines.                                                                   *)

\* the 1-based number of the line on which the character at index i lies
LineAt(t, i) == 1 + Cardinality({j \in 0..(i - 1) : CharAt(t, j) = "\n"})

\* the index of the first character of the n-th token that a step of scan
\* adds: the opening quote of a quoted literal, the first character copied of
\* an expression block, the character scan_until_token stopped at otherwise
\* (the colon after the key of an expression block stands right after the key)
BeganAt(n) ==
  CASE pc = "start" -> 0
    [] pc = "quoted" -> index' - Len(chars) - 2
    [] pc = "expression" -> index - Len(chars)
    [] pc = "scan" -> scan_until_token(text, index, line_number).index
                        + (IF n = 2 THEN Len(tokens'[Len(tokens) + 1].chars) ELSE 0)

\* the tokens a step of scan from one of the positions pcs adds carry the
\* line of their first character
LinesOfNewTokens(pcs) ==
  pc \in pcs /\ Len(tokens') > Len(tokens)
    => \A n \in 1..(Len(tokens') - Len(tokens)) :
         tokens'[Len(tokens) + n].line_number = LineAt(text, BeganAt(n))

\* C21: the line number of every token is the 1-based number of the line on
\* which its first character lies, for quoted literals and expression blocks
\* of several lines as well.
C21_TokenLine == [][LinesOfNewTokens({"start", "scan", "quoted", "expression"})]_vars

\* C21 for the tokens other than quoted literals and expression blocks
C21_OneLineTokenLine == [][LinesOfNewTokens({"start", "scan"})]_vars

\* the line counter is one more than the newlines before the cursor
CountsLines == pc \in Lexing => line_number = LineAt(text, index)

\* C22: during scan the cursor never moves back, and the line counter is
\* always 1 plus the number of newlines the cursor has passed, in white space,
\* after a comment, in a quoted literal (after a backslash too) and in an
\* expression block.
C22_LineCounter ==
  /\ [][round' = round => index' >= index]_vars
  /\ []CountsLines

\* C22 but for the newlines that follow a backslash in a quoted literal
C22_LineCounterUnescaped ==
  /\ [][round' = round => index' >= index]_vars
  /\ [](CountsLines
          \/ \E j \in 1..(index - 1) : CharAt(text, j) = "\n" /\ CharAt(text, j - 1) = "\\")

----------------------------------------------------------------------------
(* Delimiters, for the Parser: any run of these words, a space between two. *)

\* words per text of delimiters
MaxDelims == 4

DelimWords ==
  { <<"a", ":">>, <<"l", "e", "n", "g", "t", "h", ":">>, <<"b">>, <<"{">>, <<"}">>, <<"[">>, <<"]">>, <<",">>,
    <<"\"", "b", "\"">>, <<"s", "q", "l", ":", " ", "x", " ", ";", ";">> }

DelimInit ==
  \E ws \in SeqsUpTo(DelimWords, MaxDelims) : Start(ws, JoinWith(ws, <<" ">>))

DelimSpec == DelimInit /\ [][Next]_vars

\* the words w among the first n words of the text
CountOf(w, n) == Cardinality({m \in 1..n : decls[m] = w})

\* a "{" that no "}" closes, a "[" that no "]" follows
Unclosed ==
  \/ CountOf(<<"{">>, Len(decls)) > CountOf(<<"}">>, Len(decls))
  \/ \E n \in 1..Len(decls) :
       decls[n] = <<"[">> /\ \A m \in (n + 1)..Len(decls) : decls[m] # <<"]">>

\* what load returned
Tree == IF round = 1 THEN tree ELSE first.tree

\* C23: a block with an empty body is read as a mapping without fields, but
\* for its name if it has one; key: [] is read as an empty list under the key;
\* a text with a block that no "}" closes or a list that no "]" closes makes
\* load fail with a SyntaxError, and load returns no tree.
C23_Delimiters ==
  /\ round = 1 /\ Unclosed => pc # "dump" /\ (pc = "load_failed" => error.kind = "SyntaxError")
  /\ round = 2 \/ Loaded =>
       /\ decls = <<<<"a", ":">>, <<"{">>, <<"}">>>> => Tree = Obj(<<Field(<<"a">>, Obj(<<>>))>>)
       /\ decls = <<<<"a", ":">>, <<"b">>, <<"{">>, <<"}">>>>
            => Tree = Obj(<<Field(<<"a">>, Obj(<<Field(<<"n", "a", "m", "e">>, Str(<<"b">>))>>))>>)
       /\ \A k \in {<<"a">>, <<"l", "e", "n", "g", "t", "h">>} :
            decls = <<k \o <<":">>, <<"[">>, <<"]">>>> => Tree = Obj(<<Field(k, Arr(<<>>, <<>>))>>)
  /\ \A k \in {<<"a">>, <<"l", "e", "n", "g", "t", "h">>} :
       decls \in {<<k \o <<":">>, <<"{">>, <<"}">>>>, <<k \o <<":">>, <<"b">>, <<"{">>, <<"}">>>>,
                  <<k \o <<":">>, <<"[">>, <<"]">>>>}
         => pc # "load_failed"

\* every "}" among the words closes a block
Closing ==
  \A n \in 1..Len(decls) : CountOf(<<"}">>, n) <= CountOf(<<"{">>, n)

\* C23 for the texts where every "}" closes a block and for the key a: load
\* returns no tree for an unclosed block or list (the error it raises is the
\* first it meets, which need not be the SyntaxError)
C23_ClosingDelimiters ==
  /\ round = 1 /\ Unclosed /\ Closing => pc # "dump"
  /\ round = 2 \/ Loaded =>
       /\ decls = <<<<"a", ":">>, <<"{">>, <<"}">>>> => Tree = Obj(<<Field(<<"a">>, Obj(<<>>))>>)
       /\ decls = <<<<"a", ":">>, <<"b">>, <<"{">>, <<"}">>>>
            => Tree = Obj(<<Field(<<"a">>, Obj(<<Field(<<"n", "a", "m", "e">>, Str(<<"b">>))>>))>>)
       /\ decls = <<<<"a", ":">>, <<"[">>, <<"]">>>> => Tree = Obj(<<Field(<<"a">>, Arr(<<>>, <<>>))>>)
  /\ decls \in {<<<<"a", ":">>, <<"{">>, <<"}">>>>, <<<<"a", ":">>, <<"b">>, <<"{">>, <<"}">>>>,
                <<<<"a", ":">>, <<"[">>, <<"]">>>>}
       => pc # "load_failed"

----------------------------------------------------------------------------
(* Quoted literals, for the Lexer: declarations, an opening quote, any run  *)
(* of these words, and a quote.                                             *)

QuoteWords == { <<"a">>, <<"\"">>, <<"\\">>, <<"\n">>, <<" ">> }

\* what stands before the opening quote
QuotePrefixes ==
  { <<"l", "a", "b", "e", "l", ":", " ">>, <<"s", "q", "l", ":", " ", "a", " ", ";", ";">> \o <<"\n">> \o <<"l", "a", "b", "e", "l", ":", " ">> }

QuoteInit ==
  \E pre \in QuotePrefixes, ws \in SeqsUpTo(QuoteWords, MaxWords) :
    Start(<<pre>> \o ws, pre \o <<"\"">> \o Concat(ws) \o <<"\"">>)

QuoteSpec == QuoteInit /\ [][Next]_vars

\* the index after the opening quote
Opening == Len(decls[1]) + 1

\* the backslashes that stand in a row directly before index j, from index
\* from on
RECURSIVE BackslashRun(_, _, _)
BackslashRun(t, j, from) ==
  IF j > from /\ CharAt(t, j - 1) = "\\" THEN 1 + BackslashRun(t, j - 1, from) ELSE 0

\* a quote at index j that no backslash escapes: the backslashes directly
\* before it escape each other
ClosingQuote(t, j, from) ==
  CharAt(t, j) = "\"" /\ BackslashRun(t, j, from) % 2 = 0

\* the first quoted literal token scan returned
FirstQuoted ==
  tokens[CHOOSE n \in 1..Len(tokens) :
           /\ tokens[n].name = "QuotedLiteralToken"
           /\ \A m \in 1..(n - 1) : tokens[m].name # "QuotedLiteralToken"]

HasQuoted == \E n \in 1..Len(tokens) : tokens[n].name = "QuotedLiteralToken"

\* C24: a quoted literal token holds the text between the opening quote and
\* the first quote that no backslash escapes, as it is in the text: a
\* backslash and the character after it are both kept, and a quote directly
\* after an escaping backslash does not end the literal.
C24_QuotedLiteral ==
  round = 1 /\ HasQuoted =>
    \E j \in Opening..(Len(input) - 1) :
      /\ ClosingQuote(input, j, Opening)
      /\ \A i \in Opening..(j - 1) : ~ClosingQuote(input, i, Opening)
      /\ FirstQuoted.chars = Substring(input, Opening, j)

\* scan has returned a quoted literal that holds a backslash and a quote
C24_Witness ==
  /\ round = 1
  /\ pc = "parse"
  /\ HasQuoted
  /\ \E n \in 1..(Len(FirstQuoted.chars) - 1) :
       FirstQuoted.chars[n] = "\\" /\ FirstQuoted.chars[n + 1] = "\""

----------------------------------------------------------------------------
(* The array of a repeated key.                                             *)

\* the entry of the element e of the array of the key k: a block, or a pair
\* for a string
EntryText(level, k, e) ==
  IF e.t = "string" THEN PairText(level, StripS(k), e.s) ELSE BlockText(level, StripS(k), e)

\* the entries of the elements of a in the order of the array, each after the
\* first after an empty line
EntriesText(level, k, a) ==
  JoinWith([i \in 1..Len(a.items) |-> EntryText(level, k, a.items[i])], <<"\n", "\n">>)

\* what dump returns for the array a of the key k where between(e) stands
\* before the element e that follows another: at the top level, and in a view
\* after another field
RepeatedAs(k, a, between(_)) ==
  LET texts == [i \in 1..Len(a.items) |->
                  (IF i > 1 THEN between(a.items[i]) ELSE <<>>)
                    \o EntryText(IF Given = Repeated(k, a) THEN 0 ELSE 1, k, a.items[i])]
  IN  /\ Given = Repeated(k, a) => out = Concat(texts)
      /\ Given = ViewRepeated(k, a)
           => out = <<"v", "i", "e", "w", ":", " ", "{">> \o <<"\n">> \o PairText(1, <<"o", "u", "t", "e", "r">>, <<"o">>)
                      \o (IF a.items[1].t = "string" THEN <<"\n">> ELSE <<"\n", "\n">>)
                      \o Concat(texts) \o <<"\n", "}">>

EmptyLine(e) == <<"\n", "\n">>
EmptyLineBeforeBlock(e) == IF e.t = "string" THEN <<"\n">> ELSE <<"\n", "\n">>

\* C25: the array of a pluralized repeatable key is written as one entry for
\* each element, in the order of the array, each with the key without its
\* last s, and every element after the first after an empty line.
C25_RepeatedKey ==
  Dumped => \A k \in RepeatKeys, a \in RepeatArrays : RepeatedAs(k, a, EmptyLine)

\* the same, the empty line before the elements that are mappings only
C25_RepeatedBlocks ==
  Dumped => \A k \in RepeatKeys, a \in RepeatArrays : RepeatedAs(k, a, EmptyLineBeforeBlock)

\* an array of three elements whose second element is a string has been dumped
C25_Witness ==
  /\ Dumped
  /\ \E k \in RepeatKeys, a \in RepeatArrays :
       /\ Given \in {Repeated(k, a), ViewRepeated(k, a)}
       /\ Len(a.items) = 3
       /\ a.items[2].t = "string"

----------------------------------------------------------------------------
(* The parent key and the key allowed_values.                               *)

\* the text w stands somewhere in the text t
Occurs(t, w) ==
  \E i \in 1..(Len(t) - Len(w) + 1) : SubSeq(t, i, i + Len(w) - 1) = w

\* a pluralized key of the catalog of repeatable keys
Pluralized(k) == k # <<>> /\ k[Len(k)] = "s" /\ StripS(k) \in PLURAL_KEYS

\* the field k of the outer block was written as entries of the key without
\* its last s
Expanded(k) == Occurs(out, NewlineIndent(1) \o StripS(k) \o <<":", " ">>)

\* what dump returns for the blocks whose field i is one of those chosen
ExpandsIn(chosen(_, _)) ==
  \A outer \in NestOuters, fs \in NestSeqs :
    Given = Block(outer, Obj(fs)) =>
      \A i \in 1..Len(fs) :
        Pluralized(fs[i].k) /\ chosen(fs, i) =>
          (Expanded(fs[i].k)
             <=> ~(fs[i].k = <<"a", "l", "l", "o", "w", "e", "d", "_", "v", "a", "l", "u", "e", "s">> /\ outer = <<"a", "c", "c", "e", "s", "s", "_", "g", "r", "a", "n", "t">>))

AnyField(fs, i) == TRUE

\* no block was written in the outer block before its field i, and the field
\* is not bind_filters
BeforeBlocks(fs, i) ==
  /\ fs[i].k # <<"b", "i", "n", "d", "_", "f", "i", "l", "t", "e", "r", "s">>
  /\ \A j \in 1..(i - 1) : fs[j].v.t = "string"

\* C26: the array of allowed_values is written as entries of allowed_value
\* unless the block that directly encloses it has the key access_grant, where
\* it is not; the array of every other pluralized key of PLURAL_KEYS is
\* written as entries of the key without its last s whatever its parent.
C26_AllowedValues == Dumped => ExpandsIn(AnyField)

\* the same for the fields before which the block holds strings only, but
\* for bind_filters
C26_AllowedValuesFirst == Dumped => ExpandsIn(BeforeBlocks)


\* the Serializer when the loop of write_block that began in the state s0
\* reaches entry i of the fields
RECURSIVE LoopState(_, _, _)
LoopState(s0, entries, i) ==
  IF i = 1 THEN s0
  ELSE write_any(LoopState(s0, entries, i - 1), entries[i - 1].k, entries[i - 1].v).s

\* the Serializer when write_block of the block outer, the first field of the
\* tree, begins its loop
OpenState(outer) == increase_level([NewSerializer EXCEPT !.parent_key = Str(outer)])

\* parent_key is the key of the outer block at those of its fields chosen
ParentKeyIn(chosen(_, _)) ==
  \A outer \in NestOuters, fs \in NestSeqs :
    Given = Block(outer, Obj(fs)) =>
      \A i \in 1..Len(fs) :
        chosen(fs, i) => LoopState(OpenState(outer), fs, i).parent_key = Str(outer)

\* no block was written in the outer block before its field i
AfterStrings(fs, i) == \A j \in 1..(i - 1) : fs[j].v.t = "string"

\* C27: while the fields of a block are written, parent_key is the key of the
\* innermost block that encloses the field being written, also for the fields
\* that follow a nested block of that block.
C27_ParentKey == Dumped => ParentKeyIn(AnyField)

\* the same for the fields before which the block holds strings only
C27_ParentKeyFirst == Dumped => ParentKeyIn(AfterStrings)

----------------------------------------------------------------------------
(* Arrays of mappings under the indexes of the array.                       *)

\* the text that dump returned for the first element of the array
FirstElementText(a) ==
  IF Given = a THEN out
  ELSE SubSeq(out, Len(<<"l", "i", "s", "t", ":", " ", "{">> \o NewlineIndent(1)) + 1, Len(out))

\* C28: an element of an array of mappings that the Serializer meets under
\* its index is written as a block whose key is the value of the name field
\* of the element; the key written is never undefined and never the index.
C28_NumericKey ==
  Dumped =>
    \A a \in PositionalArrays :
      Given \in {a, Block(<<"l", "i", "s", "t">>, a)} =>
        /\ StartsWith(FirstElementText(a), Get(a.items[1], <<"n", "a", "m", "e">>).s \o <<":", " ">>)
        /\ ~Occurs(out, <<"u", "n", "d", "e", "f", "i", "n", "e", "d", ":", " ">>)
        /\ ~Occurs(out, <<"0", ":", " ">>)

\* the key written for such an element is never its index
C28_NeverIndex ==
  Dumped =>
    \A a \in PositionalArrays :
      Given \in {a, Block(<<"l", "i", "s", "t">>, a)} =>
        \A n \in 0..(MaxWords - 1) : ~Occurs(out, NumStr(n) \o <<":", " ">>)

----------------------------------------------------------------------------
(* The lines of the text that serialize returns.                            *)

\* the key k of a field at depth d begins a line of the text returned
OwnLine(d, k) ==
  \E j \in 1..Len(out) :
    /\ StartsWith(SubSeq(out, j, Len(out)), Indent(d) \o k \o <<":", " ">>)
    /\ j = 1 \/ out[j - 1] = "\n"

\* the fields of the blocks of the tree begin a line each, and so do those
\* fields at the top level that are chosen
FieldLines(chosen(_, _)) ==
  \A fs \in TopSeqs :
    Given = Obj(fs) =>
      \A i \in 1..Len(fs) :
        /\ chosen(fs, i) => OwnLine(0, fs[i].k)
        /\ fs[i].v.t = "object" =>
             \A n \in 1..Len(fs[i].v.fields) :
               fs[i].v.fields[n].k # <<"n", "a", "m", "e">> => OwnLine(1, fs[i].v.fields[n].k)

\* the first field of the tree, and a block
FirstOrBlock(fs, i) == i = 1 \/ fs[i].v.t = "object"

\* C29: in the text that serialize returns every field, a pair, a set or a
\* block, begins a line of its own, at the top level of the tree too.
C29_FieldLines == Dumped => FieldLines(AnyField)

\* the same, at the top level for the first field and for the blocks only
C29_BlockFieldLines == Dumped => FieldLines(FirstOrBlock)

----------------------------------------------------------------------------
(* The indentation of the text that serialize returns.                      *)

\* the lines of the text t
RECURSIVE Lines(_)
Lines(t) ==
  IF \A i \in 1..Len(t) : t[i] # "\n" THEN <<t>>
  ELSE LET n == CHOOSE i \in 1..Len(t) : t[i] = "\n" /\ \A j \in 1..(i - 1) : t[j] # "\n"
       IN  <<SubSeq(t, 1, n - 1)>> \o Lines(SubSeq(t, n + 1, Len(t)))

\* the spaces at the beginning of the line l
RECURSIVE Spaces(_)
Spaces(l) == IF l # <<>> /\ Head(l) = " " THEN 1 + Spaces(Tail(l)) ELSE 0

\* the lines ls from line i on are indented by two spaces for each block and
\* each set of several lines that is open, d of them before line i: a line
\* that ends with an opening brace or bracket opens one, a line that begins
\* with a closing one closes one and is indented like the line that opened it
RECURSIVE Indented(_, _, _)
Indented(ls, i, d) ==
  IF i > Len(ls) THEN d = 0
  ELSE LET n == Spaces(ls[i])
           r == SubSeq(ls[i], n + 1, Len(ls[i]))
           closes == r # <<>> /\ r[1] \in {"}", "]"}
           opens == r # <<>> /\ r[Len(r)] \in {"{", "["}
           here == IF closes THEN d - 1 ELSE d
       IN  \/ r = <<>> /\ Indented(ls, i + 1, d)
           \/ /\ r # <<>>
              /\ here >= 0
              /\ n = 2 * here
              /\ Indented(ls, i + 1, IF opens THEN here + 1 ELSE here)

\* C30: level is never negative and the indent is two spaces for each level:
\* the key of a field inside blocks nested d deep stands after exactly 2 * d
\* spaces on its line, a closing brace is indented like the key that opened
\* its block, and level is 0 when serialize returns.
C30_Indentation ==
  /\ serializer.level >= 0
  /\ Dumped => serializer.level = 0 /\ Indented(Lines(out), 1, 0)

\* a block nested in a block has been written, its fields after four spaces
C30_Witness ==
  /\ Dumped
  /\ round = 1
  /\ Occurs(out, <<"{">> \o NewlineIndent(2) \o <<"t", "y", "p", "e", ":", " ", "t">> \o NewlineIndent(2))
  /\ Occurs(out, NewlineIndent(1) \o <<"}">> \o NewlineIndent(0) \o <<"}">>)

====
